---- MODULE Spec2Model ----
(***************************************************************************)
(* A model of the WiredTiger record store of MongoDB 3.6                   *)
(* (src/mongo/db/storage/wiredtiger/wiredtiger_record_store.cpp) and of    *)
(* the insert path that drives it (src/mongo/db/ops/write_ops_exec.cpp).   *)
(*                                                                         *)
(* The ordered key-value engine is modelled by `table`, the committed      *)
(* contents of the store's table (record id -> payload length), and by a   *)
(* per-thread transaction: a snapshot taken when the unit of work starts,  *)
(* the records it wrote and removed, and the Change objects registered on  *)
(* its recovery unit, which run at commit or at rollback.                  *)
(***************************************************************************)
EXTENDS Integers, Sequences, FiniteSets, TLC

\* ------------------------------------------------------------------ bounds

\* The largest record id the id counter hands out (guards cap the counter):
\* in an ordinary store, and in a capped store.
MaxId == 3
MaxCappedId == 5
\* The largest id handed out to the one client that inserts single records.
MaxSeqId == 5
\* The worker threads (client operations).
Threads == {"t1", "t2"}

\* RecordId(): the null record id (record_id.h); normal ids are > 0.
NullId == 0

\* ------------------------------------------------------------------ state

VARIABLES
    table,        \* committed content of the table: [id -> payload length]
    _numRecords,  \* AtomicInt64 _numRecords
    _dataSize,    \* AtomicInt64 _dataSize
    _nextIdNum,   \* AtomicInt64 _nextIdNum
    pc,           \* per thread: where it is in its operation
    txn,          \* per thread: its unit of work (snapshot, writes, changes)
    idLog,        \* history: the ids _nextId() returned, in the order returned
    burned,       \* history: the ids consumed by insert attempts that aborted
    kind,         \* "plain", "capped" (_isCapped, no stones) or "oplog" (_oplogStones)
    _cappedMaxSize,       \* int64_t _cappedMaxSize (-1: not capped)
    _cappedMaxDocs,       \* int64_t _cappedMaxDocs (-1: no document limit)
    _cappedFirstRecord,   \* RecordId _cappedFirstRecord
    _cappedDeleterMutex,  \* stdx::timed_mutex: the thread holding it, or "free"
    overlapped,   \* history (capped): two units of work were ever open at once
    reclaimFailed,\* history (capped): the last reclamation was skipped or failed
    committedIds, \* history (capped): the ids of the committed inserts
    _stones,          \* OplogStones::_stones: deque of [records, bytes, lastRecord]
    _currentRecords,  \* OplogStones::_currentRecords (AtomicInt64)
    _currentBytes,    \* OplogStones::_currentBytes (AtomicInt64)
    _minBytesPerStone,\* OplogStones::_minBytesPerStone
    firstRecord,      \* OplogStones::firstRecord
    _mutex,           \* OplogStones::_mutex: its holder, or "free"
    swapped,          \* createNewStoneIfNeeded: the result of _currentRecords.swap(0)
    rpc,              \* the background reclaim thread: where it is in reclaimOplog
    rstone,           \* reclaimOplog: the stone peekOldestStoneIfNeeded returned
    opTime,           \* the last optime getNextOpTimes handed out
    startup,          \* history (oplog): how the constructor placed the stones
    deferred,         \* history (oplog): a stone that was due has not been created
    cursor,       \* a record cursor: _forward, _eof, _lastReturnedId, _skipNextAdvance
                  \* and pos, the key its WT_CURSOR is positioned at
    _prefix,      \* KVPrefix _prefix of a prefixed store; 0 for a standard store
    neighbours,   \* the keys other collections hold in the table a prefixed store shares
    cstate,       \* the cursor: "none", "active" or "saved" (between save and restore)
    expected,     \* history (cursor): what next() would have returned when save() ran
    mutated,      \* history (cursor): the table changed since save()
    restoreRet,   \* history (cursor): what the last restore() returned
    justRestored, \* history (cursor): restore() was the cursor's last operation
    _isDead,      \* OplogStones::_isDead
    wpc,          \* each thread that calls yieldAndAwaitOplogDeletionRequest: where it is
    notifyPending,\* kill() has set _isDead and not yet called notify_one
    lockState,    \* each such thread: the collection lock its Locker holds (held), the
                  \* LockSnapshot of yieldAndAwaitOplogDeletionRequest (saved) and
                  \* whether its recovery unit has a storage snapshot open (active)
    oldestTimestamp, \* the engine's oldest timestamp (WiredTigerKVEngine::setOldestTimestamp)
    clientOp      \* each client's insert operation: its documents and how far it has got

coreVars == <<table, _numRecords, _dataSize, _nextIdNum, pc, txn, idLog, burned>>
cappedVars == <<kind, _cappedMaxSize, _cappedMaxDocs, _cappedFirstRecord,
                _cappedDeleterMutex, overlapped, reclaimFailed, committedIds>>
oplogVars == <<_stones, _currentRecords, _currentBytes, _minBytesPerStone, firstRecord,
               _mutex, swapped, rpc, rstone, opTime, startup, deferred>>
cursorVars == <<cursor, _prefix, neighbours, cstate, expected, mutated, restoreRet,
                justRestored>>
awaitVars == <<_isDead, wpc, notifyPending, lockState>>
engineVars == <<oldestTimestamp>>
callerVars == <<clientOp>>
vars == <<coreVars, cappedVars, oplogVars, cursorVars, awaitVars, engineVars, callerVars>>

\* ---------------------------------------------------------------- helpers

Max(a, b) == IF a >= b THEN a ELSE b
Min(a, b) == IF a <= b THEN a ELSE b

RECURSIVE SumSeq(_)
SumSeq(s) == IF s = <<>> THEN 0 ELSE Head(s) + SumSeq(Tail(s))

SetMin(S) == CHOOSE x \in S : \A y \in S : x <= y
SetMax(S) == CHOOSE x \in S : \A y \in S : x >= y

\* The batches the clients hand to insertRecords (payload lengths, in order).
Batches == {<<1>>, <<5>>, <<5, 1>>}

\* The largest id the model lets the id counter reach.
IdCap == IF kind = "capped" THEN MaxCappedId ELSE MaxId

\* The stone of a store that has none (reclaimOplog's optional is empty).
NoStone == [records |-> 0, bytes |-> 0, lastRecord |-> NullId, truncated |-> FALSE]

\* _oplogStones is null: a store that is not the oplog.
NoOplogStones ==
    /\ _stones = <<>>
    /\ _currentRecords = 0
    /\ _currentBytes = 0
    /\ _minBytesPerStone = 0
    /\ firstRecord = NullId
    /\ _mutex = "free"
    /\ swapped = 0
    /\ rpc = "idle"
    /\ rstone = NoStone
    /\ opTime = 0
    /\ startup = "none"
    /\ deferred = FALSE

\* The key of a WT_CURSOR that is not positioned, and a record id with its prefix.
NoKey == [prefix |-> 0, id |-> NullId]
Key(prefix, id) == [prefix |-> prefix, id |-> id]

\* What next() and seekExact() return: a record, nothing (boost::none), a
\* WriteConflictException, or a failed invariant.
RetNone == [kind |-> "none", id |-> NullId]
RetRecord(id) == [kind |-> "record", id |-> id]
RetConflict == [kind |-> "conflict", id |-> NullId]
RetInvariant == [kind |-> "invariant", id |-> NullId]

\* WiredTigerRecordStoreCursorBase(opCtx, rs, forward): the members as constructed.
NewCursor(forward) ==
    [_forward |-> forward, _eof |-> FALSE, _lastReturnedId |-> NullId,
     _skipNextAdvance |-> FALSE, pos |-> NoKey]

\* No cursor is open.
NoCursor ==
    /\ cursor = NewCursor(TRUE)
    /\ _prefix = 0
    /\ neighbours = {}
    /\ cstate = "none"
    /\ expected = RetNone
    /\ mutated = FALSE
    /\ restoreRet = TRUE
    /\ justRestored = FALSE

\* The threads that wait for oplog deletion requests: the background reclaim
\* thread and one more.
Waiters == {"w1", "w2"}

\* Nobody has called kill() or waits, and no oldest timestamp has been set.
NoKill ==
    /\ _isDead = FALSE
    /\ wpc = [w \in Waiters |-> "out"]
    /\ notifyPending = FALSE
    /\ lockState = [w \in Waiters |-> [held |-> "none", saved |-> "none", active |-> FALSE]]
    /\ oldestTimestamp = 0

\* insertBatchAndHandleErrors is not running: no documents to insert.
NoOp == [docs |-> <<>>, next |-> 1, whole |-> FALSE, ordered |-> TRUE]

\* A unit of work that has done nothing yet.
EmptyTxn == [snap |-> {}, ins |-> <<>>, del |-> {}, changes |-> <<>>,
             lens |-> <<>>, ids |-> <<>>]

\* What transaction t sees: its snapshot of the committed table, without what
\* it removed, with what it wrote (snapshot isolation).
Visible(t) == ((txn[t].snap \intersect DOMAIN table) \ txn[t].del) \union DOMAIN txn[t].ins

\* -------------------------------------------------------------- counters

\* The value _numRecords / _dataSize holds after
\*     if (counter.fetchAndAdd(diff) < 0) counter.store(std::max(diff, 0));
\* fetchAndAdd returns the value before the addition.
FetchAndAddClamp(old, diff) == IF old < 0 THEN Max(diff, 0) ELSE old + diff

\* NumRecordsChange::rollback(): _numRecords.fetchAndAdd(-_diff), no clamp.
NumRecordsRollbackNoUndo(old, diff) == old
NumRecordsRollback(old, diff) == old - diff

\* DataSizeChange::rollback(): _increaseDataSize(NULL, -_amount).
DataSizeRollback(old, amount) == FetchAndAddClamp(old, -amount)

\* The counters after the Change objects of an aborted unit of work have run
\* their rollback(), last registered first.
RollbackCountersNone(changes, n, d) == [n |-> n, d |-> d]
RECURSIVE RollbackCounters(_, _, _)
RollbackCounters(changes, n, d) ==
    IF changes = <<>> THEN [n |-> n, d |-> d]
    ELSE LET c == changes[Len(changes)]
             rest == SubSeq(changes, 1, Len(changes) - 1)
         IN  IF c.kind = "num" THEN RollbackCounters(rest, NumRecordsRollback(n, c.diff), d)
             ELSE IF c.kind = "size" THEN RollbackCounters(rest, n, DataSizeRollback(d, c.diff))
             ELSE RollbackCounters(rest, n, d)

\* _nextId(): RecordId(_nextIdNum.fetchAndAdd(1)); the counter afterwards.
NextIdAfterNoAdvance(n) == n
NextIdAfter(n) == n + 1

\* validate(): the totals of a full forward scan of the table.
RECURSIVE ScanBytes(_, _)
ScanBytes(t, ids) ==
    IF ids = {} THEN 0
    ELSE LET id == SetMin(ids) IN t[id] + ScanBytes(t, ids \ {id})
ValidateRecords(t) == Cardinality(DOMAIN t)
ValidateBytes(t) == ScanBytes(t, DOMAIN t)

\* ------------------------------------------------------- ordinary store

\* postConstructorInit() on an empty table.
Init ==
    /\ table = <<>>
    /\ _numRecords = 0
    /\ _dataSize = 0
    /\ _nextIdNum = 1
    /\ pc = [t \in Threads |-> "idle"]
    /\ txn = [t \in Threads |-> EmptyTxn]
    /\ idLog = <<>>
    /\ burned = {}
    /\ kind = "plain"
    /\ _cappedMaxSize = -1
    /\ _cappedMaxDocs = -1
    /\ _cappedFirstRecord = NullId
    /\ _cappedDeleterMutex = "free"
    /\ overlapped = FALSE
    /\ reclaimFailed = FALSE
    /\ committedIds = {}
    /\ NoOplogStones
    /\ NoCursor
    /\ NoKill
    /\ clientOp = [t \in Threads |-> NoOp]

\* WriteUnitOfWork wuow(opCtx): the engine transaction takes its snapshot.
\* A capped store's unit of work never reads through the snapshot (it only
\* inserts, and the reclaimer reads in a side transaction), so it is left empty.
\* A unit of work performs one operation (insertDocuments: one
\* collection->insertDocuments between the WriteUnitOfWork and its commit).
BeginUnitOfWork(t) ==
    /\ pc[t] = "idle"
    /\ pc' = [pc EXCEPT ![t] = "inTxn"]
    /\ txn' = [txn EXCEPT ![t] = [EmptyTxn EXCEPT !.snap = IF kind = "plain" THEN DOMAIN table ELSE {}]]
    /\ overlapped' = (overlapped \/ (kind = "capped" /\ \E u \in Threads \ {t} : pc[u] # "idle"))
    /\ UNCHANGED <<table, _numRecords, _dataSize, _nextIdNum, idLog, burned>>
    /\ UNCHANGED <<kind, _cappedMaxSize, _cappedMaxDocs, _cappedFirstRecord,
                   _cappedDeleterMutex, reclaimFailed, committedIds>>
    /\ UNCHANGED oplogVars
    /\ UNCHANGED cursorVars
    /\ UNCHANGED callerVars
    /\ UNCHANGED awaitVars
    /\ UNCHANGED engineVars

\* _insertRecords without its check of totalLength.
InsertRecordsAnyLength(t, lens) ==
    /\ pc[t] = "inTxn"
    /\ _nextIdNum + Len(lens) - 1 <= IdCap
    /\ pc' = [pc EXCEPT ![t] = "assign"]
    /\ txn' = [txn EXCEPT ![t].lens = lens, ![t].ids = <<>>]
    /\ UNCHANGED <<table, _numRecords, _dataSize, _nextIdNum, idLog, burned, cappedVars>>
    /\ UNCHANGED oplogVars
    /\ UNCHANGED cursorVars
    /\ UNCHANGED callerVars
    /\ UNCHANGED awaitVars
    /\ UNCHANGED engineVars

\* _insertRecords, entry, called with the batch lens: a capped store returns
\* Status(ErrorCodes::BadValue) for a batch longer than _cappedMaxSize; else
\* the batch is accepted and ids are about to be assigned.
InsertRecords(t, lens) ==
    /\ pc[t] = "inTxn"
    /\ IF kind # "plain" /\ SumSeq(lens) > _cappedMaxSize
       THEN /\ pc' = [pc EXCEPT ![t] = "badValue"]
            /\ txn' = [txn EXCEPT ![t].lens = lens]
       ELSE /\ _nextIdNum + Len(lens) - 1 <= IdCap
            /\ pc' = [pc EXCEPT ![t] = "assign"]
            /\ txn' = [txn EXCEPT ![t].lens = lens, ![t].ids = <<>>]
    /\ UNCHANGED <<table, _numRecords, _dataSize, _nextIdNum, idLog, burned, cappedVars>>
    /\ UNCHANGED oplogVars
    /\ UNCHANGED cursorVars
    /\ UNCHANGED callerVars
    /\ UNCHANGED awaitVars
    /\ UNCHANGED engineVars

\* _insertRecords, the id loop: one record.id = _nextId() (an atomic
\* fetchAndAdd, so two inserters' batches may interleave their ids).
NextId(t) ==
    /\ pc[t] = "assign"
    /\ LET id == _nextIdNum
           ids == Append(txn[t].ids, id)
       IN  /\ _nextIdNum' = NextIdAfter(_nextIdNum)
           /\ idLog' = Append(idLog, id)
           /\ txn' = [txn EXCEPT ![t].ids = ids]
           /\ pc' = [pc EXCEPT ![t] = IF Len(ids) = Len(txn[t].lens) THEN "write" ELSE "assign"]
    /\ UNCHANGED <<table, _numRecords, _dataSize, burned, cappedVars>>
    /\ UNCHANGED oplogVars
    /\ UNCHANGED cursorVars
    /\ UNCHANGED callerVars
    /\ UNCHANGED awaitVars
    /\ UNCHANGED engineVars

\* The records of the batch of t, keyed by the ids assigned to them.
BatchRecords(t, k) ==
    [id \in {txn[t].ids[i] : i \in 1..k} |->
        txn[t].lens[CHOOSE i \in 1..k : txn[t].ids[i] = id]]

\* _insertRecords, the write loop and the counters: every c->insert succeeded.
WriteRecords(t) ==
    /\ pc[t] = "write"
    /\ LET n == Len(txn[t].lens)
           total == SumSeq(txn[t].lens)
           recs == BatchRecords(t, n)
       IN  /\ txn' = [txn EXCEPT
                  ![t].ins = [id \in DOMAIN txn[t].ins \union DOMAIN recs |->
                                 IF id \in DOMAIN recs THEN recs[id] ELSE txn[t].ins[id]],
                  ![t].changes = txn[t].changes \o
                                 <<[kind |-> "num", diff |-> n], [kind |-> "size", diff |-> total]>>]
           /\ _numRecords' = FetchAndAddClamp(_numRecords, n)
           /\ _dataSize' = FetchAndAddClamp(_dataSize, total)
    /\ pc' = [pc EXCEPT ![t] = IF kind = "capped" THEN "capped" ELSE "done"]
    /\ UNCHANGED <<table, _nextIdNum, idLog, burned, cappedVars>>
    /\ UNCHANGED oplogVars
    /\ UNCHANGED cursorVars
    /\ UNCHANGED callerVars
    /\ UNCHANGED awaitVars
    /\ UNCHANGED engineVars

\* _insertRecords, the write loop: c->insert of record k+1 fails (an engine
\* error or write conflict); the function returns before touching the counters.
WriteRecordsFailRetries(t) ==
    /\ pc[t] = "write"
    /\ \E k \in 0..(Len(txn[t].lens) - 1) :
         LET recs == BatchRecords(t, k)
         IN  txn' = [txn EXCEPT
                 ![t].ins = [id \in DOMAIN txn[t].ins \union DOMAIN recs |->
                                IF id \in DOMAIN recs THEN recs[id] ELSE txn[t].ins[id]]]
    /\ pc' = [pc EXCEPT ![t] = "write"]
    /\ UNCHANGED <<table, _numRecords, _dataSize, _nextIdNum, idLog, burned, cappedVars>>
    /\ UNCHANGED oplogVars
    /\ UNCHANGED cursorVars
    /\ UNCHANGED callerVars
    /\ UNCHANGED awaitVars
    /\ UNCHANGED engineVars
WriteRecordsFail(t) ==
    /\ pc[t] = "write"
    /\ \E k \in 0..(Len(txn[t].lens) - 1) :
         LET recs == BatchRecords(t, k)
         IN  txn' = [txn EXCEPT
                 ![t].ins = [id \in DOMAIN txn[t].ins \union DOMAIN recs |->
                                IF id \in DOMAIN recs THEN recs[id] ELSE txn[t].ins[id]]]
    /\ pc' = [pc EXCEPT ![t] = "failed"]
    /\ UNCHANGED <<table, _numRecords, _dataSize, _nextIdNum, idLog, burned, cappedVars>>
    /\ UNCHANGED oplogVars
    /\ UNCHANGED cursorVars
    /\ UNCHANGED callerVars
    /\ UNCHANGED awaitVars
    /\ UNCHANGED engineVars

\* Another transaction removed id and has not finished, or removed it and
\* committed after t took its snapshot: c->remove returns WT_ROLLBACK.
RemoveConflicts(t, id) ==
    \/ id \in txn[t].snap /\ id \notin DOMAIN table
    \/ \E u \in Threads \ {t} : pc[u] # "idle" /\ id \in txn[u].del

\* deleteRecord(id) of a record the transaction sees.
DeleteRecord(t, id) ==
    /\ pc[t] = "inTxn"
    /\ id \in Visible(t)
    /\ ~RemoveConflicts(t, id)
    /\ LET len == IF id \in DOMAIN txn[t].ins THEN txn[t].ins[id] ELSE table[id]
       IN  /\ txn' = [txn EXCEPT
                  ![t].ins = [i \in DOMAIN txn[t].ins \ {id} |-> txn[t].ins[i]],
                  ![t].del = IF id \in txn[t].snap THEN txn[t].del \union {id} ELSE txn[t].del,
                  ![t].changes = txn[t].changes \o
                                 <<[kind |-> "num", diff |-> -1], [kind |-> "size", diff |-> -len]>>]
           /\ _numRecords' = FetchAndAddClamp(_numRecords, -1)
           /\ _dataSize' = FetchAndAddClamp(_dataSize, -len)
    /\ pc' = [pc EXCEPT ![t] = "done"]
    /\ UNCHANGED <<table, _nextIdNum, idLog, burned, cappedVars>>
    /\ UNCHANGED oplogVars
    /\ UNCHANGED cursorVars
    /\ UNCHANGED callerVars
    /\ UNCHANGED awaitVars
    /\ UNCHANGED engineVars

\* deleteRecord(id) hits a write conflict: WriteConflictException, thrown
\* before the counters are touched.
DeleteRecordConflict(t, id) ==
    /\ pc[t] = "inTxn"
    /\ id \in txn[t].snap \ txn[t].del
    /\ RemoveConflicts(t, id)
    /\ pc' = [pc EXCEPT ![t] = "failed"]
    /\ UNCHANGED <<table, _numRecords, _dataSize, _nextIdNum, txn, idLog, burned, cappedVars>>
    /\ UNCHANGED oplogVars
    /\ UNCHANGED cursorVars
    /\ UNCHANGED callerVars
    /\ UNCHANGED awaitVars
    /\ UNCHANGED engineVars

\* The committed table after the writes of t are applied.
Applied(t) ==
    LET keep == (DOMAIN table \ txn[t].del) \union DOMAIN txn[t].ins
    IN  [id \in keep |-> IF id \in DOMAIN txn[t].ins THEN txn[t].ins[id] ELSE table[id]]

\* wuow.commit(): the engine commits; NumRecordsChange::commit and
\* DataSizeChange::commit do nothing.
CommitUnitOfWork(t) ==
    /\ pc[t] = "done"
    /\ table' = Applied(t)
    /\ pc' = [pc EXCEPT ![t] = "idle"]
    /\ txn' = [txn EXCEPT ![t] = EmptyTxn]
    /\ committedIds' = IF kind = "capped" THEN committedIds \union DOMAIN txn[t].ins
                       ELSE committedIds
    /\ UNCHANGED <<_numRecords, _dataSize, _nextIdNum, idLog, burned>>
    /\ UNCHANGED <<kind, _cappedMaxSize, _cappedMaxDocs, _cappedFirstRecord,
                   _cappedDeleterMutex, overlapped, reclaimFailed>>
    /\ UNCHANGED oplogVars
    /\ UNCHANGED cursorVars
    /\ UNCHANGED callerVars
    /\ UNCHANGED awaitVars
    /\ UNCHANGED engineVars

\* ~WriteUnitOfWork without commit: the engine rolls back and every
\* registered Change runs rollback().
AbortUnitOfWork(t) ==
    /\ pc[t] \in {"done", "failed", "updated", "illegalOp", "badValue"}
    /\ LET r == RollbackCounters(txn[t].changes, _numRecords, _dataSize)
       IN  /\ _numRecords' = r.n
           /\ _dataSize' = r.d
    /\ pc' = [pc EXCEPT ![t] = "idle"]
    /\ txn' = [txn EXCEPT ![t] = EmptyTxn]
    /\ burned' = burned \union {txn[t].ids[i] : i \in 1..Len(txn[t].ids)}
    /\ UNCHANGED <<table, _nextIdNum, idLog, cappedVars>>
    /\ UNCHANGED oplogVars
    /\ UNCHANGED cursorVars
    /\ UNCHANGED callerVars
    /\ UNCHANGED awaitVars
    /\ UNCHANGED engineVars

Next ==
    \/ \E t \in Threads : BeginUnitOfWork(t)
    \/ \E t \in Threads, lens \in Batches : InsertRecords(t, lens)
    \/ \E t \in Threads : NextId(t)
    \/ \E t \in Threads : WriteRecords(t)
    \/ \E t \in Threads : WriteRecordsFail(t)
    \/ \E t \in Threads, id \in 1..MaxId : DeleteRecord(t, id)
    \/ \E t \in Threads, id \in 1..MaxId : DeleteRecordConflict(t, id)
    \/ \E t \in Threads : CommitUnitOfWork(t)
    \/ \E t \in Threads : AbortUnitOfWork(t)

Spec == Init /\ [][Next]_vars

\* No unit of work is open.
Quiescent == \A t \in Threads : pc[t] = "idle"

\* C1: for a non-capped store, whenever every insert/delete transaction has
\* committed or aborted, numRecords() and dataSize() equal the totals a full
\* forward scan (validate) computes.
C1_CountersMatchScan ==
    Quiescent => /\ _numRecords = ValidateRecords(table)
                 /\ _dataSize = ValidateBytes(table)

\* C1 witness: a quiescent state with records stored and with ids that were
\* consumed by an aborted insert or whose record was deleted.
C1_Witness ==
    /\ Quiescent
    /\ Cardinality(DOMAIN table) >= 2
    /\ Len(idLog) > Cardinality(DOMAIN table)

\* The ids of a sequence.
Range(s) == {s[i] : i \in 1..Len(s)}

StrictlyIncreasing(s) == \A i \in 1..(Len(s) - 1) : s[i] < s[i + 1]

\* C2: the ids one non-log store assigns are strictly increasing in the order
\* assigned (hence unique), the ids of one batch are strictly increasing, and
\* an id consumed by an aborted insert is never assigned again: it is below
\* the id counter, in no open batch and not stored.
C2_IdsStrictlyIncreasing ==
    /\ StrictlyIncreasing(idLog)
    /\ \A i \in 1..Len(idLog) : idLog[i] < _nextIdNum
    /\ \A t \in Threads : StrictlyIncreasing(txn[t].ids)
    /\ \A t, u \in Threads : t # u => Range(txn[t].ids) \intersect Range(txn[u].ids) = {}
    /\ DOMAIN table \subseteq Range(idLog)
    /\ \A id \in burned :
         /\ id < _nextIdNum
         /\ id \notin DOMAIN table
         /\ \A t \in Threads : id \notin Range(txn[t].ids)

\* C2 witness: two inserters interleaved their id assignments, one attempt
\* aborted, and a record with a larger id than the skipped one is stored.
C2_Witness ==
    /\ Quiescent
    /\ burned = {2}
    /\ DOMAIN table = {1, 3}

\* ------------------------------------------------------- capped store

\* The most documents one pass of the capped reclaimer removes.
CappedMaxDocsPerPass == 20000

\* _cappedMaxSizeSlack(std::min(params.cappedMaxSize / 10, int64_t(16 * 1024 * 1024)))
CappedMaxSizeSlack == Min(_cappedMaxSize \div 10, 16 * 1024 * 1024)

\* cappedAndNeedDelete()
cappedAndNeedDelete ==
    IF kind = "plain" THEN FALSE
    ELSE IF _dataSize >= _cappedMaxSize THEN TRUE
    ELSE IF _cappedMaxDocs # -1 /\ _numRecords > _cappedMaxDocs THEN TRUE
    ELSE FALSE

\* cappedDeleteAsNeeded_inlock: the overage computed at entry.
SizeOverCapNone(dataSize) == 0
SizeOverCap(dataSize) == IF dataSize > _cappedMaxSize THEN dataSize - _cappedMaxSize ELSE 0
DocsOverCap(numRecords) ==
    IF _cappedMaxDocs # -1 /\ numRecords > _cappedMaxDocs THEN numRecords - _cappedMaxDocs ELSE 0

\* WT_CURSOR::next and WT_CURSOR::prev over the keys a transaction sees; the
\* position NullId is an unpositioned cursor (next gives the first key, prev the
\* last), the result NullId is WT_NOTFOUND.
CursorNext(keys, pos) ==
    LET after == {k \in keys : k > pos}
    IN  IF after = {} THEN NullId ELSE SetMin(after)
CursorPrevStays(keys, pos) == pos
CursorPrev(keys, pos) ==
    LET before == IF pos = NullId THEN keys ELSE {k \in keys : k < pos}
    IN  IF before = {} THEN NullId ELSE SetMax(before)

\* cappedDeleteAsNeeded_inlock, the state before the walk: the cursor is on
\* _cappedFirstRecord if that record is found, unpositioned otherwise.
CappedWalkStart(view) ==
    LET found == _cappedFirstRecord # NullId /\ _cappedFirstRecord \in DOMAIN view
    IN  [cur |-> IF found THEN _cappedFirstRecord ELSE NullId,
         positioned |-> found,
         savedFirstKey |-> IF found THEN _cappedFirstRecord ELSE 0,
         ret |-> IF _cappedFirstRecord # NullId /\ ~found THEN "WT_NOTFOUND" ELSE "ok",
         newestIdToDelete |-> NullId,
         docsRemoved |-> 0,
         sizeSaved |-> 0]

\* cappedDeleteAsNeeded_inlock, the while loop that advances truncateEnd; cap
\* is the loop's limit on docsRemoved.
CappedWalkUpToNone(view, st, justInserted, sizeOverCap, docsOverCap, cap) == st
RECURSIVE CappedWalkUpTo(_, _, _, _, _, _)
CappedWalkUpTo(view, st, justInserted, sizeOverCap, docsOverCap, cap) ==
    IF ~((st.sizeSaved < sizeOverCap \/ st.docsRemoved < docsOverCap)
         /\ st.docsRemoved < cap)
    THEN st
    ELSE LET at == IF st.positioned THEN st.cur ELSE CursorNext(DOMAIN view, st.cur)
         IN  IF at = NullId
             THEN [st EXCEPT !.cur = NullId, !.ret = "WT_NOTFOUND"]
             ELSE IF at >= justInserted
             THEN [st EXCEPT !.cur = at, !.positioned = FALSE, !.ret = "ok",
                             !.newestIdToDelete = at]
             ELSE CappedWalkUpTo(view,
                                 [st EXCEPT !.cur = at, !.positioned = FALSE, !.ret = "ok",
                                            !.newestIdToDelete = at,
                                            !.docsRemoved = st.docsRemoved + 1,
                                            !.sizeSaved = st.sizeSaved + view[at]],
                                 justInserted, sizeOverCap, docsOverCap, cap)

\* The loop as the code runs it: (docsRemoved < 20000).
CappedWalk(view, st, justInserted, sizeOverCap, docsOverCap) ==
    CappedWalkUpTo(view, st, justInserted, sizeOverCap, docsOverCap, CappedMaxDocsPerPass)

\* cappedDeleteAsNeeded_inlock: where truncateEnd stands when the truncate is
\* issued (one step back after running off the end or onto the new record).
TruncateEndKey(view, st, justInserted) ==
    IF st.ret = "WT_NOTFOUND" \/ st.newestIdToDelete >= justInserted
    THEN CursorPrev(DOMAIN view, st.cur)
    ELSE st.cur

\* session->truncate(session, NULL, truncateStart, truncateEnd, NULL): the keys
\* removed; startKey 0 is a NULL start cursor (from the beginning).
TruncateRangeEndOnly(keys, startKey, endKey) == {k \in keys : k = endKey}
TruncateRange(keys, startKey, endKey) ==
    {k \in keys : (startKey = 0 \/ k >= startKey) /\ k <= endKey}

\* cappedDeleteAsNeeded_inlock on the committed table: what one pass removes.
CappedPass(view, justInserted) ==
    LET st == CappedWalk(view, CappedWalkStart(view), justInserted,
                         SizeOverCap(_dataSize), DocsOverCap(_numRecords))
        endKey == TruncateEndKey(view, st, justInserted)
    IN  [docsRemoved |-> st.docsRemoved,
         sizeSaved |-> st.sizeSaved,
         removed |-> IF st.docsRemoved > 0
                     THEN TruncateRange(DOMAIN view, st.savedFirstKey, endKey) ELSE {},
         firstRemainingId |-> CursorNext(DOMAIN view, endKey)]

\* WiredTigerRecordStore(params) for a capped collection that is not the
\* oplog, then postConstructorInit() on an empty table.
InitCapped ==
    /\ table = <<>>
    /\ _numRecords = 0
    /\ _dataSize = 0
    /\ _nextIdNum = 1
    /\ pc = [t \in Threads |-> "idle"]
    /\ txn = [t \in Threads |-> EmptyTxn]
    /\ idLog = <<>>
    /\ burned = {}
    /\ kind = "capped"
    /\ _cappedMaxSize = 30
    /\ _cappedMaxDocs \in {-1, 3}
    /\ _cappedFirstRecord = NullId
    /\ _cappedDeleterMutex = "free"
    /\ overlapped = FALSE
    /\ reclaimFailed = FALSE
    /\ committedIds = {}
    /\ NoOplogStones
    /\ NoCursor
    /\ NoKill
    /\ clientOp = [t \in Threads |-> NoOp]

\* RecordId justInserted of cappedDeleteAsNeeded: highestId of the batch.
JustInserted(t) == txn[t].ids[Len(txn[t].ids)]

\* cappedDeleteAsNeeded returns 0 at once: no limit is exceeded.
CappedNoDelete(t) ==
    /\ pc[t] = "capped"
    /\ ~cappedAndNeedDelete
    /\ pc' = [pc EXCEPT ![t] = "done"]
    /\ reclaimFailed' = FALSE
    /\ UNCHANGED <<table, _numRecords, _dataSize, _nextIdNum, txn, idLog, burned>>
    /\ UNCHANGED <<kind, _cappedMaxSize, _cappedMaxDocs, _cappedFirstRecord,
                   _cappedDeleterMutex, overlapped, committedIds>>
    /\ UNCHANGED oplogVars
    /\ UNCHANGED cursorVars
    /\ UNCHANGED callerVars
    /\ UNCHANGED awaitVars
    /\ UNCHANGED engineVars

\* insertBatchAndHandleErrors hands a capped collection one document at a time.
\* A store with a document limit receives one-byte documents, a store limited
\* by size alone small and large ones.
CappedBatches == IF _cappedMaxDocs = -1 THEN {<<1>>, <<15>>} ELSE {<<1>>}

\* cappedDeleteAsNeeded takes _cappedDeleterMutex: lock() when a document
\* limit is set (it waits for the holder), a successful try_lock() otherwise.
CappedLockUnguarded(t) ==
    /\ pc[t] = "capped"
    /\ cappedAndNeedDelete
    /\ _cappedDeleterMutex' = t
    /\ pc' = [pc EXCEPT ![t] = "inlock"]
    /\ UNCHANGED <<table, _numRecords, _dataSize, _nextIdNum, txn, idLog, burned>>
    /\ UNCHANGED <<kind, _cappedMaxSize, _cappedMaxDocs, _cappedFirstRecord,
                   overlapped, reclaimFailed, committedIds>>
    /\ UNCHANGED oplogVars
    /\ UNCHANGED cursorVars
    /\ UNCHANGED callerVars
    /\ UNCHANGED awaitVars
    /\ UNCHANGED engineVars
CappedLock(t) ==
    /\ pc[t] = "capped"
    /\ cappedAndNeedDelete
    /\ _cappedDeleterMutex = "free"
    /\ _cappedDeleterMutex' = t
    /\ pc' = [pc EXCEPT ![t] = "inlock"]
    /\ UNCHANGED <<table, _numRecords, _dataSize, _nextIdNum, txn, idLog, burned>>
    /\ UNCHANGED <<kind, _cappedMaxSize, _cappedMaxDocs, _cappedFirstRecord,
                   overlapped, reclaimFailed, committedIds>>
    /\ UNCHANGED oplogVars
    /\ UNCHANGED cursorVars
    /\ UNCHANGED callerVars
    /\ UNCHANGED awaitVars
    /\ UNCHANGED engineVars

\* cappedDeleteAsNeeded, try_lock() fails: return 0 while the overage is
\* within the slack, wait for the lock otherwise.
CappedTryLockFail(t) ==
    /\ pc[t] = "capped"
    /\ cappedAndNeedDelete
    /\ _cappedMaxDocs = -1
    /\ _cappedDeleterMutex # "free"
    /\ IF (_dataSize - _cappedMaxSize) < CappedMaxSizeSlack
       THEN /\ pc' = [pc EXCEPT ![t] = "done"]
            /\ reclaimFailed' = TRUE
       ELSE /\ pc' = [pc EXCEPT ![t] = "waitlock"]
            /\ UNCHANGED reclaimFailed
    /\ UNCHANGED <<table, _numRecords, _dataSize, _nextIdNum, txn, idLog, burned>>
    /\ UNCHANGED <<kind, _cappedMaxSize, _cappedMaxDocs, _cappedFirstRecord,
                   _cappedDeleterMutex, overlapped, committedIds>>
    /\ UNCHANGED oplogVars
    /\ UNCHANGED cursorVars
    /\ UNCHANGED callerVars
    /\ UNCHANGED awaitVars
    /\ UNCHANGED engineVars

\* cappedDeleteAsNeeded, try_lock_for(200ms) obtains the lock: delete only
\* when the overage is at least twice the slack, else return 0 (unlocking).
CappedWaitGotLockAlways(t) ==
    /\ pc[t] = "waitlock"
    /\ _cappedDeleterMutex = "free"
    /\ pc' = [pc EXCEPT ![t] = "inlock"]
    /\ _cappedDeleterMutex' = t
    /\ UNCHANGED <<table, _numRecords, _dataSize, _nextIdNum, txn, idLog, burned>>
    /\ UNCHANGED <<kind, _cappedMaxSize, _cappedMaxDocs, _cappedFirstRecord,
                   overlapped, reclaimFailed, committedIds>>
    /\ UNCHANGED oplogVars
    /\ UNCHANGED cursorVars
    /\ UNCHANGED callerVars
    /\ UNCHANGED awaitVars
    /\ UNCHANGED engineVars
CappedWaitGotLock(t) ==
    /\ pc[t] = "waitlock"
    /\ _cappedDeleterMutex = "free"
    /\ IF (_dataSize - _cappedMaxSize) < (2 * CappedMaxSizeSlack)
       THEN /\ pc' = [pc EXCEPT ![t] = "done"]
            /\ reclaimFailed' = TRUE
            /\ UNCHANGED _cappedDeleterMutex
       ELSE /\ pc' = [pc EXCEPT ![t] = "inlock"]
            /\ _cappedDeleterMutex' = t
            /\ UNCHANGED reclaimFailed
    /\ UNCHANGED <<table, _numRecords, _dataSize, _nextIdNum, txn, idLog, burned>>
    /\ UNCHANGED <<kind, _cappedMaxSize, _cappedMaxDocs, _cappedFirstRecord,
                   overlapped, committedIds>>
    /\ UNCHANGED oplogVars
    /\ UNCHANGED cursorVars
    /\ UNCHANGED callerVars
    /\ UNCHANGED awaitVars
    /\ UNCHANGED engineVars

\* cappedDeleteAsNeeded, try_lock_for(200ms) times out: return 0.
CappedWaitTimeout(t) ==
    /\ pc[t] = "waitlock"
    /\ _cappedDeleterMutex # "free"
    /\ pc' = [pc EXCEPT ![t] = "done"]
    /\ reclaimFailed' = TRUE
    /\ UNCHANGED <<table, _numRecords, _dataSize, _nextIdNum, txn, idLog, burned>>
    /\ UNCHANGED <<kind, _cappedMaxSize, _cappedMaxDocs, _cappedFirstRecord,
                   _cappedDeleterMutex, overlapped, committedIds>>
    /\ UNCHANGED oplogVars
    /\ UNCHANGED cursorVars
    /\ UNCHANGED callerVars
    /\ UNCHANGED awaitVars
    /\ UNCHANGED engineVars

\* cappedDeleteAsNeeded_inlock: the side transaction walks the committed
\* records (it sees no uncommitted insert, the caller's included), truncates,
\* changes the counters, commits and remembers the first remaining id.
CappedDeleteInLock(t) ==
    /\ pc[t] = "inlock"
    /\ LET r == CappedPass(table, JustInserted(t))
       IN  IF r.docsRemoved > 0
           THEN /\ table' = [id \in DOMAIN table \ r.removed |-> table[id]]
                /\ _numRecords' = FetchAndAddClamp(_numRecords, -r.docsRemoved)
                /\ _dataSize' = FetchAndAddClamp(_dataSize, -r.sizeSaved)
                /\ _cappedFirstRecord' = r.firstRemainingId
           ELSE UNCHANGED <<table, _numRecords, _dataSize, _cappedFirstRecord>>
    /\ _cappedDeleterMutex' = "free"
    /\ pc' = [pc EXCEPT ![t] = "done"]
    /\ reclaimFailed' = FALSE
    /\ UNCHANGED <<_nextIdNum, txn, idLog, burned>>
    /\ UNCHANGED <<kind, _cappedMaxSize, _cappedMaxDocs, overlapped, committedIds>>
    /\ UNCHANGED oplogVars
    /\ UNCHANGED cursorVars
    /\ UNCHANGED callerVars
    /\ UNCHANGED awaitVars
    /\ UNCHANGED engineVars

\* cappedDeleteAsNeeded_inlock: the side transaction hits a write conflict
\* (caught, "got conflict truncating capped, ignoring") or the truncate fails
\* softly (ENOENT / WT_NOTFOUND, docsRemoved = 0): nothing is removed.
CappedDeleteConflictRethrown(t) ==
    /\ pc[t] = "inlock"
    /\ CappedPass(table, JustInserted(t)).docsRemoved > 0
    /\ _cappedDeleterMutex' = "free"
    /\ pc' = [pc EXCEPT ![t] = "failed"]
    /\ reclaimFailed' = TRUE
    /\ UNCHANGED <<table, _numRecords, _dataSize, _nextIdNum, txn, idLog, burned>>
    /\ UNCHANGED <<kind, _cappedMaxSize, _cappedMaxDocs, _cappedFirstRecord,
                   overlapped, committedIds>>
    /\ UNCHANGED oplogVars
    /\ UNCHANGED cursorVars
    /\ UNCHANGED callerVars
    /\ UNCHANGED awaitVars
    /\ UNCHANGED engineVars
CappedDeleteConflict(t) ==
    /\ pc[t] = "inlock"
    /\ CappedPass(table, JustInserted(t)).docsRemoved > 0
    /\ _cappedDeleterMutex' = "free"
    /\ pc' = [pc EXCEPT ![t] = "done"]
    /\ reclaimFailed' = TRUE
    /\ UNCHANGED <<table, _numRecords, _dataSize, _nextIdNum, txn, idLog, burned>>
    /\ UNCHANGED <<kind, _cappedMaxSize, _cappedMaxDocs, _cappedFirstRecord,
                   overlapped, committedIds>>
    /\ UNCHANGED oplogVars
    /\ UNCHANGED cursorVars
    /\ UNCHANGED callerVars
    /\ UNCHANGED awaitVars
    /\ UNCHANGED engineVars

\* cappedDeleteAsNeeded_inlock: an exception other than a write conflict (the
\* capped callback's aboutToDeleteCapped fails): catch (...) reinstalls the
\* caller's recovery unit and rethrows, so the caller's unit of work fails.
CappedDeleteThrows(t) ==
    /\ pc[t] = "inlock"
    /\ CappedPass(table, JustInserted(t)).docsRemoved > 0
    /\ _cappedDeleterMutex' = "free"
    /\ pc' = [pc EXCEPT ![t] = "failed"]
    /\ reclaimFailed' = TRUE
    /\ UNCHANGED <<table, _numRecords, _dataSize, _nextIdNum, txn, idLog, burned>>
    /\ UNCHANGED <<kind, _cappedMaxSize, _cappedMaxDocs, _cappedFirstRecord,
                   overlapped, committedIds>>
    /\ UNCHANGED oplogVars
    /\ UNCHANGED cursorVars
    /\ UNCHANGED callerVars
    /\ UNCHANGED awaitVars
    /\ UNCHANGED engineVars

\* ~WiredTigerRecordStore: lock_guard lk(_cappedDeleterMutex) waits for a
\* running deleter, then _shuttingDown = true; the store is gone afterwards,
\* so no deleter takes the mutex again.
Teardown ==
    /\ _cappedDeleterMutex = "free"
    /\ _cappedDeleterMutex' = "destructor"
    /\ UNCHANGED <<table, _numRecords, _dataSize, _nextIdNum, pc, txn, idLog, burned>>
    /\ UNCHANGED <<kind, _cappedMaxSize, _cappedMaxDocs, _cappedFirstRecord,
                   overlapped, reclaimFailed, committedIds>>
    /\ UNCHANGED oplogVars
    /\ UNCHANGED cursorVars
    /\ UNCHANGED callerVars
    /\ UNCHANGED awaitVars
    /\ UNCHANGED engineVars

NextCapped ==
    \/ \E t \in Threads : BeginUnitOfWork(t)
    \/ \E t \in Threads, lens \in CappedBatches : InsertRecords(t, lens)
    \/ \E t \in Threads : NextId(t)
    \/ \E t \in Threads : WriteRecords(t)
    \/ \E t \in Threads : WriteRecordsFail(t)
    \/ \E t \in Threads : CappedNoDelete(t)
    \/ \E t \in Threads : CappedLock(t)
    \/ \E t \in Threads : CappedTryLockFail(t)
    \/ \E t \in Threads : CappedWaitGotLock(t)
    \/ \E t \in Threads : CappedWaitTimeout(t)
    \/ \E t \in Threads : CappedDeleteInLock(t)
    \/ \E t \in Threads : CappedDeleteConflict(t)
    \/ \E t \in Threads : CommitUnitOfWork(t)
    \/ \E t \in Threads : AbortUnitOfWork(t)

SpecCapped == InitCapped /\ [][NextCapped]_vars

\* The capped store with its reclaimer's every way out and the store's
\* destruction, under inserts of 15-byte documents.
NextCappedTeardown ==
    \/ \E t \in Threads : BeginUnitOfWork(t)
    \/ \E t \in Threads : InsertRecords(t, <<15>>)
    \/ \E t \in Threads : NextId(t)
    \/ \E t \in Threads : WriteRecords(t)
    \/ \E t \in Threads : CappedNoDelete(t)
    \/ \E t \in Threads : CappedLock(t)
    \/ \E t \in Threads : CappedTryLockFail(t)
    \/ \E t \in Threads : CappedWaitGotLock(t)
    \/ \E t \in Threads : CappedWaitTimeout(t)
    \/ \E t \in Threads : CappedDeleteInLock(t)
    \/ \E t \in Threads : CappedDeleteConflict(t)
    \/ \E t \in Threads : CappedDeleteThrows(t)
    \/ Teardown
    \/ \E t \in Threads : CommitUnitOfWork(t)
    \/ \E t \in Threads : AbortUnitOfWork(t)

SpecCappedTeardown == InitCapped /\ [][NextCappedTeardown]_vars

\* The capped store of one client that also sends batches longer than
\* cappedMaxSize (30): one document of 31 bytes, two of 16 and 15.
NextCappedReject ==
    \/ BeginUnitOfWork("t1")
    \/ \E lens \in {<<15>>, <<31>>, <<16, 15>>} : InsertRecords("t1", lens)
    \/ NextId("t1")
    \/ WriteRecords("t1")
    \/ CappedNoDelete("t1")
    \/ CappedLock("t1")
    \/ CappedDeleteInLock("t1")
    \/ CommitUnitOfWork("t1")
    \/ AbortUnitOfWork("t1")

SpecCappedReject == InitCapped /\ [][NextCappedReject]_vars

\* C32: _insertRecords of a batch whose lengths add up to more than
\* cappedMaxSize returns BadValue and has no effect: no record is written, no
\* id is taken, the counters stay and cappedDeleteAsNeeded does not run, up
\* to the end of the unit of work.
C32_OversizeRejected ==
    [][\A t \in Threads :
          /\ (pc[t] = "inTxn" /\ pc'[t] # "inTxn"
              /\ SumSeq(txn'[t].lens) > _cappedMaxSize) =>
                 /\ pc'[t] = "badValue"
                 /\ txn'[t].ids = <<>>
                 /\ txn'[t].ins = txn[t].ins
                 /\ txn'[t].changes = txn[t].changes
                 /\ UNCHANGED <<table, _numRecords, _dataSize, _nextIdNum, idLog,
                                _cappedFirstRecord, _cappedDeleterMutex>>
          /\ pc[t] = "badValue" =>
                 /\ pc'[t] \in {"badValue", "idle"}
                 /\ UNCHANGED <<table, _numRecords, _dataSize, _nextIdNum, idLog,
                                _cappedFirstRecord, _cappedDeleterMutex>>]_vars

\* C32 witness: two documents of 16 and 15 bytes were refused by a store of
\* 30 bytes that holds records.
C32_Witness ==
    /\ pc["t1"] = "badValue"
    /\ txn["t1"].lens = <<16, 15>>
    /\ DOMAIN table # {}
    /\ _dataSize > 0

\* No operation is in the middle of its steps.
Settled == \A t \in Threads : pc[t] \in {"idle", "inTxn", "done"}

WithinCappedLimits ==
    /\ _cappedMaxDocs # -1 => _numRecords <= _cappedMaxDocs
    /\ _dataSize <= _cappedMaxSize + CappedMaxSizeSlack

\* C3 as claimed: after any inserts into a capped store, once
\* cappedDeleteAsNeeded has run for the last one, numRecords() <= cappedMaxDocs
\* and dataSize() <= cappedMaxSize + slack.
C3_Original == Settled => WithinCappedLimits

\* C3 amended: the limits hold once cappedDeleteAsNeeded has run for the last
\* insert provided the units of work ran one at a time and that last
\* reclamation was not given up (lock not obtained, write conflict or soft
\* truncate failure in the side transaction).
C3_LimitsAfterSequentialReclaim ==
    (Settled /\ ~overlapped /\ ~reclaimFailed) => WithinCappedLimits

\* C3 witness: a sequential run in which the reclaimer removed records and the
\* store holds as many documents as the limit allows.
C3_Witness ==
    /\ Settled /\ ~overlapped /\ ~reclaimFailed
    /\ _cappedFirstRecord # NullId
    /\ _cappedMaxDocs = 3 /\ _numRecords = 3

MaxOplogNew == 2

\* OplogStones::OplogStones and OplogStones::adjust
kMinStonesToKeep == 10
kMaxStonesToKeep == 100
\* BSONObjMaxInternalSize: 16MB + 16KB
BSONObjMaxInternalSize == (16 * 1024 * 1024) + (16 * 1024)

NumStonesToKeep(maxSize) ==
    Min(kMaxStonesToKeep, Max(kMinStonesToKeep, maxSize \div BSONObjMaxInternalSize))

MinBytesPerStone(maxSize) == maxSize \div NumStonesToKeep(maxSize)

\* hasExcessStones_inlock(): the marker count exceeds the retention ceiling.
hasExcessStones_inlock == Len(_stones) > NumStonesToKeep(_cappedMaxSize)

\* OplogStones::Stone {records, bytes, lastRecord}; truncated is history: the
\* reclaimer has committed the truncation of this stone's range.
StoneNoBytes(records, bytes, lastRecord) ==
    [records |-> records, bytes |-> 0, lastRecord |-> lastRecord, truncated |-> FALSE]
Stone(records, bytes, lastRecord) ==
    [records |-> records, bytes |-> bytes, lastRecord |-> lastRecord, truncated |-> FALSE]

\* ------------------------------------------------- oplog stones: cold start

\* _calculateStonesByScanning: one forward pass over the table from pos.
RECURSIVE ScanFrom(_, _, _, _)
ScanFrom(tbl, pos, minBytes, acc) ==
    LET id == CursorNext(DOMAIN tbl, pos)
    IN  IF id = NullId THEN acc
        ELSE LET newRecords == acc.currentRecords + 1
                 newBytes == acc.currentBytes + tbl[id]
                 placed == newBytes >= minBytes
             IN  ScanFrom(tbl, id, minBytes,
                    [stones |-> IF placed
                                THEN Append(acc.stones, Stone(newRecords, newBytes, id))
                                ELSE acc.stones,
                     currentRecords |-> IF placed THEN 0 ELSE newRecords,
                     currentBytes |-> IF placed THEN 0 ELSE newBytes,
                     numRecords |-> acc.numRecords + 1,
                     dataSize |-> acc.dataSize + tbl[id]])

_calculateStonesByScanning(tbl, minBytes) ==
    ScanFrom(tbl, NullId, minBytes,
             [stones |-> <<>>, currentRecords |-> 0, currentBytes |-> 0,
              numRecords |-> 0, dataSize |-> 0])

\* kMinSampleRatioForRandCursor, kRandomSamplesPerStone
kMinSampleRatioForRandCursor == 20
kRandomSamplesPerStone == 10

CeilDiv(a, b) == (a + b - 1) \div b

\* _calculateStones: estRecordsPerStone = ceil(_minBytesPerStone / avgRecordSize),
\* estBytesPerStone = estRecordsPerStone * avgRecordSize, truncated to int64
\* (avgRecordSize = dataSize / numRecords; the doubles are computed exactly).
EstRecordsPerStone(numRecords, dataSize, minBytes) == CeilDiv(minBytes * numRecords, dataSize)
EstBytesPerStone(numRecords, dataSize, minBytes) ==
    (EstRecordsPerStone(numRecords, dataSize, minBytes) * dataSize) \div numRecords

\* _calculateStones: scan unless sampling draws less than 5% of the records.
UseScanning(numRecords, dataSize, maxSize) ==
    \/ numRecords <= 0
    \/ dataSize <= 0
    \/ numRecords < kMinSampleRatioForRandCursor * kRandomSamplesPerStone
                        * NumStonesToKeep(maxSize)

\* The n-th smallest element of a set of ids.
RECURSIVE NthSmallest(_, _)
NthSmallest(ids, n) == IF n <= 1 THEN SetMin(ids) ELSE NthSmallest(ids \ {SetMin(ids)}, n - 1)

\* oplogEstimates after std::sort, for a random cursor that returned every
\* record `repeat` times (the records in id order, the last one for the rest).
SortedSample(ids, j, repeat) == NthSmallest(ids, Min(CeilDiv(j, repeat), Cardinality(ids)))

\* _calculateStonesBySampling with a non-empty table.
_calculateStonesBySampling(tbl, numRecords, dataSize, minBytes, repeat) ==
    LET estRecordsPerStone == EstRecordsPerStone(numRecords, dataSize, minBytes)
        estBytesPerStone == EstBytesPerStone(numRecords, dataSize, minBytes)
        wholeStones == numRecords \div estRecordsPerStone
    IN  [stones |-> [i \in 1..wholeStones |->
                        Stone(estRecordsPerStone, estBytesPerStone,
                              SortedSample(DOMAIN tbl, kRandomSamplesPerStone * i, repeat))],
         currentRecords |-> numRecords - (estRecordsPerStone * wholeStones),
         currentBytes |-> dataSize - (estBytesPerStone * wholeStones),
         numRecords |-> numRecords,
         dataSize |-> dataSize]

\* How often the random cursor returns each record (see SortedSample).
SampleRepeats == {kRandomSamplesPerStone, 2 * kRandomSamplesPerStone}

\* The oplog found at start-up: none, or one that is full (as many records of
\* minBytes bytes as stones are kept).
InitialOplog(st, maxSize) ==
    IF st = "empty" THEN <<>>
    ELSE [id \in 1..NumStonesToKeep(maxSize) |-> MinBytesPerStone(maxSize)]

\* What the size storer reports at start-up: the table's totals, or (start-up
\* "sampled") totals a crash left far above them, large enough to sample.
ReportedRecords(st, tbl, maxSize) ==
    IF st = "sampled"
    THEN kMinSampleRatioForRandCursor * kRandomSamplesPerStone * NumStonesToKeep(maxSize)
    ELSE ValidateRecords(tbl)
ReportedSize(st, tbl, maxSize) ==
    IF st = "sampled" THEN maxSize ELSE ValidateBytes(tbl)

\* OplogStones::_calculateStones
_calculateStones(tbl, numRecords, dataSize, maxSize, repeat) ==
    IF UseScanning(numRecords, dataSize, maxSize) \/ DOMAIN tbl = {}
    THEN _calculateStonesByScanning(tbl, MinBytesPerStone(maxSize))
    ELSE _calculateStonesBySampling(tbl, numRecords, dataSize, MinBytesPerStone(maxSize), repeat)

\* WiredTigerRecordStore(params) for the oplog, then postConstructorInit():
\* _oplogStones = std::make_shared<OplogStones>(opCtx, this).
InitOplog ==
    \E st \in {"empty", "scan", "sampled"} :
      \E repeat \in (IF st = "sampled" THEN SampleRepeats ELSE {kRandomSamplesPerStone}) :
        LET maxSize == 10000
            tbl == InitialOplog(st, maxSize)
            r == _calculateStones(tbl, ReportedRecords(st, tbl, maxSize),
                                  ReportedSize(st, tbl, maxSize), maxSize, repeat)
        IN  /\ table = tbl
            /\ _numRecords = r.numRecords
            /\ _dataSize = r.dataSize
            /\ _nextIdNum = 1
            /\ pc = [t \in Threads |-> "idle"]
            /\ txn = [t \in Threads |-> EmptyTxn]
            /\ idLog = <<>>
            /\ burned = {}
            /\ kind = "oplog"
            /\ _cappedMaxSize = maxSize
            /\ _cappedMaxDocs = -1
            /\ _cappedFirstRecord = NullId
            /\ _cappedDeleterMutex = "free"
            /\ overlapped = FALSE
            /\ reclaimFailed = FALSE
            /\ committedIds = {}
            /\ _stones = r.stones
            /\ _currentRecords = r.currentRecords
            /\ _currentBytes = r.currentBytes
            /\ _minBytesPerStone = MinBytesPerStone(maxSize)
            /\ firstRecord = NullId
            /\ _mutex = "free"
            /\ swapped = 0
            /\ rpc = "idle"
            /\ rstone = NoStone
            /\ opTime = Cardinality(DOMAIN tbl)
            /\ startup = st
            /\ deferred = (r.currentBytes >= MinBytesPerStone(maxSize))
            /\ NoCursor
            /\ NoKill
            /\ clientOp = [t \in Threads |-> NoOp]

\* What no oplog operation changes.
oplogFixed == <<_nextIdNum, idLog, kind, _cappedMaxDocs, _cappedFirstRecord,
                _cappedDeleterMutex, overlapped, reclaimFailed, committedIds, startup>>

\* The batches written to the oplog (payload lengths, in optime order).
OplogBatches == {<<500>>, <<1000>>, <<1000, 1500>>}

\* The optime of the last record found at start-up.
OplogStartTime == IF startup = "empty" THEN 0 ELSE kMinStonesToKeep

\* insertDocuments: getNextOpTimes reserves the batch's optimes; _insertRecords
\* takes each record's id from its optime (oploghack::extractKey), writes the
\* records, changes the counters and registers the InsertChange.
OplogInsertRecordsCounted(t, lens) ==
    /\ pc[t] = "inTxn"
    /\ (opTime + Len(lens)) - OplogStartTime <= MaxOplogNew
    /\ SumSeq(lens) <= _cappedMaxSize
    /\ LET n == Len(lens)
           ids == [i \in 1..n |-> opTime + i]
           total == SumSeq(lens)
       IN  /\ opTime' = opTime + n
           /\ txn' = [txn EXCEPT
                  ![t].lens = lens,
                  ![t].ids = ids,
                  ![t].ins = [id \in {ids[i] : i \in 1..n} |-> lens[id - opTime]],
                  ![t].changes = <<[kind |-> "num", diff |-> n],
                                   [kind |-> "size", diff |-> total]>>]
           /\ _numRecords' = FetchAndAddClamp(_numRecords, n)
           /\ _dataSize' = FetchAndAddClamp(_dataSize, total)
    /\ pc' = [pc EXCEPT ![t] = "done"]
    /\ UNCHANGED <<table, burned, _cappedMaxSize, oplogFixed>>
    /\ _currentRecords' = _currentRecords + Len(lens)
    /\ UNCHANGED <<_stones, _currentBytes, _minBytesPerStone, firstRecord,
                   _mutex, swapped, rpc, rstone, deferred>>
    /\ UNCHANGED cursorVars
    /\ UNCHANGED callerVars
    /\ UNCHANGED awaitVars
    /\ UNCHANGED engineVars
OplogInsertRecords(t, lens) ==
    /\ pc[t] = "inTxn"
    /\ (opTime + Len(lens)) - OplogStartTime <= MaxOplogNew
    /\ SumSeq(lens) <= _cappedMaxSize
    /\ LET n == Len(lens)
           ids == [i \in 1..n |-> opTime + i]
           total == SumSeq(lens)
       IN  /\ opTime' = opTime + n
           /\ txn' = [txn EXCEPT
                  ![t].lens = lens,
                  ![t].ids = ids,
                  ![t].ins = [id \in {ids[i] : i \in 1..n} |-> lens[id - opTime]],
                  ![t].changes = <<[kind |-> "num", diff |-> n],
                                   [kind |-> "size", diff |-> total]>>]
           /\ _numRecords' = FetchAndAddClamp(_numRecords, n)
           /\ _dataSize' = FetchAndAddClamp(_dataSize, total)
    /\ pc' = [pc EXCEPT ![t] = "done"]
    /\ UNCHANGED <<table, burned, _cappedMaxSize, oplogFixed>>
    /\ UNCHANGED <<_stones, _currentRecords, _currentBytes, _minBytesPerStone, firstRecord,
                   _mutex, swapped, rpc, rstone, deferred>>
    /\ UNCHANGED cursorVars
    /\ UNCHANGED callerVars
    /\ UNCHANGED awaitVars
    /\ UNCHANGED engineVars

\* wuow.commit(): the engine transaction commits, then the registered changes
\* run their commit(). InsertChange::commit starts with
\* _currentRecords.addAndFetch(_countInserted).
OplogCommit(t) ==
    /\ pc[t] = "done"
    /\ table' = Applied(t)
    /\ _currentRecords' = _currentRecords + Len(txn[t].lens)
    /\ pc' = [pc EXCEPT ![t] = "hookBytes"]
    /\ UNCHANGED <<_numRecords, _dataSize, txn, burned, _cappedMaxSize, oplogFixed>>
    /\ UNCHANGED <<_stones, _currentBytes, _minBytesPerStone, firstRecord,
                   _mutex, swapped, rpc, rstone, opTime, deferred>>
    /\ UNCHANGED cursorVars
    /\ UNCHANGED callerVars
    /\ UNCHANGED awaitVars
    /\ UNCHANGED engineVars

\* The record the model updates (the newest one) and the lengths it is given.
OplogUpdateIds == IF DOMAIN table = {} THEN {} ELSE {SetMax(DOMAIN table)}
OplogUpdateLens(id) == {table[id], table[id] + 500}

\* updateRecord: the test that rejects the update,
\*     if (_oplogStones && len != old_length) return IllegalOperation.
UpdateRejectedNever(hasStones, len, old_length) == FALSE
UpdateRejected(hasStones, len, old_length) == hasStones /\ len # old_length

\* updateRecord(id, data, len) on the oplog, in a unit of work: either the typed
\* error, returned before anything is written, or c->insert of the new value
\* and _increaseDataSize(len - old_length).
OplogUpdateRecord(t, id, len) ==
    /\ pc[t] = "inTxn"
    /\ id \in DOMAIN table
    /\ LET old_length == table[id]
       IN  IF UpdateRejected(kind = "oplog", len, old_length)
           THEN /\ pc' = [pc EXCEPT ![t] = "illegalOp"]
                /\ UNCHANGED <<txn, _dataSize>>
           ELSE /\ pc' = [pc EXCEPT ![t] = "updated"]
                /\ txn' = [txn EXCEPT
                       ![t].ins = [i \in {id} |-> len],
                       ![t].changes = <<[kind |-> "size", diff |-> len - old_length]>>]
                /\ _dataSize' = FetchAndAddClamp(_dataSize, len - old_length)
    /\ UNCHANGED <<table, _numRecords, burned, _cappedMaxSize, oplogFixed>>
    /\ UNCHANGED <<_stones, _currentRecords, _currentBytes, _minBytesPerStone, firstRecord,
                   _mutex, swapped, rpc, rstone, opTime, deferred>>
    /\ UNCHANGED cursorVars
    /\ UNCHANGED callerVars
    /\ UNCHANGED awaitVars
    /\ UNCHANGED engineVars

\* wuow.commit() of an update: no InsertChange was registered, so no hook runs.
OplogCommitUpdate(t) ==
    /\ pc[t] = "updated"
    /\ table' = [id \in DOMAIN table |->
                     IF id \in DOMAIN txn[t].ins THEN txn[t].ins[id] ELSE table[id]]
    /\ pc' = [pc EXCEPT ![t] = "idle"]
    /\ txn' = [txn EXCEPT ![t] = EmptyTxn]
    /\ UNCHANGED <<_numRecords, _dataSize, burned, _cappedMaxSize, oplogFixed>>
    /\ UNCHANGED oplogVars
    /\ UNCHANGED cursorVars
    /\ UNCHANGED callerVars
    /\ UNCHANGED awaitVars
    /\ UNCHANGED engineVars

\* The ids (payload timestamps) of a batch written into the oplog directly,
\* not through the optime allocator: around the highest optime handed out,
\* and keys that no committed record and no open transaction holds (writing
\* such a key again is the engine's overwrite or write conflict).
DirectBatches ==
    LET R == {id \in {opTime, opTime + 1} :
                 /\ id >= 1
                 /\ id \notin DOMAIN table
                 /\ \A u \in Threads : id \notin DOMAIN txn[u].ins}
    IN  {<<a>> : a \in R} \union ({<<a, b>> : a, b \in R} \ {<<a, a>> : a \in R})

\* _insertRecords, the id loop, dassert(record.id > highestId): highestId is a
\* local that starts at RecordId() and takes each id of the batch; dassert is
\* compiled in only in a debug build, where its failure aborts the process.
DassertFailsNever(debug, ids) == FALSE
DassertFails(debug, ids) ==
    debug /\ \E i \in 1..Len(ids) : ~(ids[i] > (IF i = 1 THEN NullId ELSE ids[i - 1]))

\* _insertRecords on the oplog with the ids in the payloads as given (a
\* document inserted directly into the oplog): every record.id is what
\* oploghack::extractKey returns; then the write loop, the counters and the
\* InsertChange, as for any insert. A failed dassert ends the process.
OplogInsertDirect(t, ids, debug) ==
    /\ pc[t] = "inTxn"
    /\ SetMax({ids[i] : i \in 1..Len(ids)}) - OplogStartTime <= MaxOplogNew
    /\ IF DassertFails(debug, ids)
       THEN /\ pc' = [u \in Threads |-> "dead"]
            /\ UNCHANGED <<opTime, txn, _numRecords, _dataSize>>
       ELSE LET n == Len(ids)
                lens == [i \in 1..n |-> 500]
            IN  /\ opTime' = Max(opTime, SetMax({ids[i] : i \in 1..n}))
                /\ txn' = [txn EXCEPT
                       ![t].lens = lens,
                       ![t].ids = ids,
                       ![t].ins = [id \in {ids[i] : i \in 1..n} |-> 500],
                       ![t].changes = <<[kind |-> "num", diff |-> n],
                                        [kind |-> "size", diff |-> SumSeq(lens)]>>]
                /\ _numRecords' = FetchAndAddClamp(_numRecords, n)
                /\ _dataSize' = FetchAndAddClamp(_dataSize, SumSeq(lens))
                /\ pc' = [pc EXCEPT ![t] = "done"]
    /\ UNCHANGED <<table, burned, _cappedMaxSize, oplogFixed>>
    /\ UNCHANGED <<_stones, _currentRecords, _currentBytes, _minBytesPerStone, firstRecord,
                   _mutex, swapped, rpc, rstone, deferred>>
    /\ UNCHANGED cursorVars
    /\ UNCHANGED callerVars
    /\ UNCHANGED awaitVars
    /\ UNCHANGED engineVars

\* The threshold test of InsertChange::commit.
ReachedThresholdAbove(bytes, minBytes) == bytes > minBytes
ReachedThreshold(bytes, minBytes) == bytes >= minBytes

\* InsertChange::commit: newCurrentBytes = _currentBytes.addAndFetch(_bytesInserted);
\* the hook is over unless newCurrentBytes >= _minBytesPerStone.
HookAddBytes(t) ==
    /\ pc[t] = "hookBytes"
    /\ LET newCurrentBytes == _currentBytes + SumSeq(txn[t].lens)
       IN  /\ _currentBytes' = newCurrentBytes
           /\ IF ReachedThreshold(newCurrentBytes, _minBytesPerStone)
              THEN /\ pc' = [pc EXCEPT ![t] = "hookCreate"]
                   /\ UNCHANGED txn
              ELSE /\ pc' = [pc EXCEPT ![t] = "idle"]
                   /\ txn' = [txn EXCEPT ![t] = EmptyTxn]
    /\ UNCHANGED <<table, _numRecords, _dataSize, burned, _cappedMaxSize, oplogFixed>>
    /\ UNCHANGED <<_stones, _currentRecords, _minBytesPerStone, firstRecord,
                   _mutex, swapped, rpc, rstone, opTime, deferred>>
    /\ UNCHANGED cursorVars
    /\ UNCHANGED callerVars
    /\ UNCHANGED awaitVars
    /\ UNCHANGED engineVars

\* RecordId _highestInserted of the InsertChange.
HighestInserted(t) == txn[t].ids[Len(txn[t].ids)]

\* createNewStoneIfNeeded: try_to_lock fails, someone else holds _mutex.
HookCreateBusy(t) ==
    /\ pc[t] = "hookCreate"
    /\ _mutex # "free"
    /\ pc' = [pc EXCEPT ![t] = "idle"]
    /\ txn' = [txn EXCEPT ![t] = EmptyTxn]
    /\ deferred' = TRUE
    /\ UNCHANGED <<table, _numRecords, _dataSize, burned, _cappedMaxSize, oplogFixed>>
    /\ UNCHANGED <<_stones, _currentRecords, _currentBytes, _minBytesPerStone, firstRecord,
                   _mutex, swapped, rpc, rstone, opTime>>
    /\ UNCHANGED cursorVars
    /\ UNCHANGED callerVars
    /\ UNCHANGED awaitVars
    /\ UNCHANGED engineVars

\* The back of the stone list is older than lastRecord (or there is none).
ComesAfterBackAlways(stones, lastRecord) == TRUE
ComesAfterBack(stones, lastRecord) ==
    stones = <<>> \/ ~(lastRecord < stones[Len(stones)].lastRecord)

\* createNewStoneIfNeeded with _mutex taken: the two early returns, else
\* _currentRecords.swap(0), the first member of the new stone.
HookCreateBegin(t) ==
    /\ pc[t] = "hookCreate"
    /\ _mutex = "free"
    /\ IF _currentBytes < _minBytesPerStone
       THEN /\ pc' = [pc EXCEPT ![t] = "idle"]
            /\ txn' = [txn EXCEPT ![t] = EmptyTxn]
            /\ UNCHANGED <<_mutex, swapped, _currentRecords, deferred>>
       ELSE IF ~ComesAfterBack(_stones, HighestInserted(t))
       THEN /\ pc' = [pc EXCEPT ![t] = "idle"]
            /\ txn' = [txn EXCEPT ![t] = EmptyTxn]
            /\ deferred' = TRUE
            /\ UNCHANGED <<_mutex, swapped, _currentRecords>>
       ELSE /\ pc' = [pc EXCEPT ![t] = "hookSwap"]
            /\ _mutex' = t
            /\ swapped' = _currentRecords
            /\ _currentRecords' = 0
            /\ UNCHANGED <<txn, deferred>>
    /\ UNCHANGED <<table, _numRecords, _dataSize, burned, _cappedMaxSize, oplogFixed>>
    /\ UNCHANGED <<_stones, _currentBytes, _minBytesPerStone, firstRecord, rpc, rstone, opTime>>
    /\ UNCHANGED cursorVars
    /\ UNCHANGED callerVars
    /\ UNCHANGED awaitVars
    /\ UNCHANGED engineVars

\* createNewStoneIfNeeded: _currentBytes.swap(0) completes the stone, which is
\* pushed onto _stones (seen by others once _mutex is released).
HookSwapBytes(t) ==
    /\ pc[t] = "hookSwap"
    /\ _stones' = Append(_stones, Stone(swapped, _currentBytes, HighestInserted(t)))
    /\ _currentBytes' = 0
    /\ swapped' = 0
    /\ deferred' = FALSE
    /\ pc' = [pc EXCEPT ![t] = "hookUnlock"]
    /\ UNCHANGED <<table, _numRecords, _dataSize, txn, burned, _cappedMaxSize, oplogFixed>>
    /\ UNCHANGED <<_currentRecords, _minBytesPerStone, firstRecord, _mutex, rpc, rstone, opTime>>
    /\ UNCHANGED cursorVars
    /\ UNCHANGED callerVars
    /\ UNCHANGED awaitVars
    /\ UNCHANGED engineVars

\* createNewStoneIfNeeded if _pokeReclaimThreadIfNeeded took
\* _oplogReclaimMutex for its notify_one.
HookUnlockNested(t) ==
    /\ pc[t] = "hookUnlock"
    /\ \A u \in Waiters : wpc[u] \notin {"locked", "checked"}
    /\ _mutex' = "free"
    /\ pc' = [pc EXCEPT ![t] = "idle"]
    /\ txn' = [txn EXCEPT ![t] = EmptyTxn]
    /\ UNCHANGED <<table, _numRecords, _dataSize, burned, _cappedMaxSize, oplogFixed>>
    /\ UNCHANGED <<_stones, _currentRecords, _currentBytes, _minBytesPerStone, firstRecord,
                   swapped, rpc, rstone, opTime, deferred>>
    /\ UNCHANGED cursorVars
    /\ UNCHANGED callerVars
    /\ IF hasExcessStones_inlock /\ \E w \in Waiters : wpc[w] = "waiting"
       THEN \E w \in Waiters : /\ wpc[w] = "waiting"
                               /\ wpc' = [wpc EXCEPT ![w] = "woken"]
       ELSE UNCHANGED wpc
    /\ UNCHANGED <<_isDead, notifyPending, lockState>>
    /\ UNCHANGED engineVars

\* createNewStoneIfNeeded returns: _pokeReclaimThreadIfNeeded (notify_one wakes
\* one thread blocked on _oplogReclaimCv if there are excess stones; it is lost
\* when no thread is blocked), then _mutex is released.
HookUnlock(t) ==
    /\ pc[t] = "hookUnlock"
    /\ _mutex' = "free"
    /\ pc' = [pc EXCEPT ![t] = "idle"]
    /\ txn' = [txn EXCEPT ![t] = EmptyTxn]
    /\ UNCHANGED <<table, _numRecords, _dataSize, burned, _cappedMaxSize, oplogFixed>>
    /\ UNCHANGED <<_stones, _currentRecords, _currentBytes, _minBytesPerStone, firstRecord,
                   swapped, rpc, rstone, opTime, deferred>>
    /\ UNCHANGED cursorVars
    /\ UNCHANGED callerVars
    /\ IF hasExcessStones_inlock /\ \E w \in Waiters : wpc[w] = "waiting"
       THEN \E w \in Waiters : /\ wpc[w] = "waiting"
                               /\ wpc' = [wpc EXCEPT ![w] = "woken"]
       ELSE UNCHANGED wpc
    /\ UNCHANGED <<_isDead, notifyPending, lockState>>
    /\ UNCHANGED engineVars

\* ------------------------------------------------ oplog stones: the reclaimer

\* peekOldestStoneIfNeeded (under _mutex): the front stone if there are excess
\* stones; reclaimOplog enters its loop body with it.
ReclaimPeek ==
    /\ rpc = "idle"
    /\ _mutex = "free"
    /\ hasExcessStones_inlock
    /\ rstone' = Head(_stones)
    /\ rpc' = "truncate"
    /\ UNCHANGED <<coreVars, cappedVars>>
    /\ UNCHANGED <<_stones, _currentRecords, _currentBytes, _minBytesPerStone, firstRecord,
                   _mutex, swapped, opTime, startup, deferred>>
    /\ UNCHANGED cursorVars
    /\ UNCHANGED callerVars
    /\ UNCHANGED awaitVars
    /\ UNCHANGED engineVars

\* What reclaimOplog adds to a counter for a stone's records or bytes.
ReclaimDiffNone(amount) == 0
ReclaimDiff(amount) == -amount

\* reclaimOplog: session->truncate from firstRecord to stone->lastRecord,
\* _changeNumRecords(-stone->records), _increaseDataSize(-stone->bytes),
\* wuow.commit().
ReclaimTruncate ==
    /\ rpc = "truncate"
    /\ LET gone == TruncateRange(DOMAIN table, firstRecord, rstone.lastRecord)
       IN  table' = [id \in DOMAIN table \ gone |-> table[id]]
    /\ _numRecords' = FetchAndAddClamp(_numRecords, ReclaimDiff(rstone.records))
    /\ _dataSize' = FetchAndAddClamp(_dataSize, ReclaimDiff(rstone.bytes))
    /\ _stones' = [_stones EXCEPT ![1].truncated = TRUE]
    /\ rpc' = "pop"
    /\ UNCHANGED <<_nextIdNum, pc, txn, idLog, burned, cappedVars>>
    /\ UNCHANGED <<_currentRecords, _currentBytes, _minBytesPerStone, firstRecord,
                   _mutex, swapped, rstone, opTime, startup, deferred>>
    /\ UNCHANGED cursorVars
    /\ UNCHANGED callerVars
    /\ UNCHANGED awaitVars
    /\ UNCHANGED engineVars

\* reclaimOplog: the truncate meets a concurrent writer, WriteConflictException
\* is caught and the loop peeks again.
ReclaimConflict ==
    /\ rpc = "truncate"
    /\ \E t \in Threads : pc[t] \in {"inTxn", "done"}
    /\ rpc' = "idle"
    /\ rstone' = NoStone
    /\ UNCHANGED <<coreVars, cappedVars>>
    /\ UNCHANGED <<_stones, _currentRecords, _currentBytes, _minBytesPerStone, firstRecord,
                   _mutex, swapped, opTime, startup, deferred>>
    /\ UNCHANGED cursorVars
    /\ UNCHANGED callerVars
    /\ UNCHANGED awaitVars
    /\ UNCHANGED engineVars

\* std::deque::pop_front
PopFrontKeep(stones) == stones
PopFront(stones) == Tail(stones)

\* popOldestStone: _stones.pop_front() under _mutex.
ReclaimPop ==
    /\ rpc = "pop"
    /\ _mutex = "free"
    /\ _mutex' = "reclaimer"
    /\ _stones' = PopFront(_stones)
    /\ rpc' = "popped"
    /\ UNCHANGED <<coreVars, cappedVars>>
    /\ UNCHANGED <<_currentRecords, _currentBytes, _minBytesPerStone, firstRecord,
                   swapped, rstone, opTime, startup, deferred>>
    /\ UNCHANGED cursorVars
    /\ UNCHANGED callerVars
    /\ UNCHANGED awaitVars
    /\ UNCHANGED engineVars

\* popOldestStone returns (releasing _mutex);
\* _oplogStones->firstRecord = stone->lastRecord.
ReclaimAdvance ==
    /\ rpc = "popped"
    /\ _mutex' = "free"
    /\ firstRecord' = rstone.lastRecord
    /\ rstone' = NoStone
    /\ rpc' = "idle"
    /\ UNCHANGED <<coreVars, cappedVars>>
    /\ UNCHANGED <<_stones, _currentRecords, _currentBytes, _minBytesPerStone,
                   swapped, opTime, startup, deferred>>
    /\ UNCHANGED cursorVars
    /\ UNCHANGED callerVars
    /\ UNCHANGED awaitVars
    /\ UNCHANGED engineVars

\* ----------------------------------------- oplog: operations run exclusively

\* cappedTruncateAfter, truncate and updateCappedSize run under an exclusive
\* lock: no unit of work is open and the reclaimer is outside reclaimOplog.
Exclusive ==
    /\ \A t \in Threads : pc[t] = "idle"
    /\ rpc = "idle"
    /\ _mutex = "free"

\* updateStonesAfterCappedTruncateAfter: the reverse walk that counts the
\* stones to remove, stopping at the first stone that ends before firstRemovedId.
RECURSIVE StonesToRemove(_, _, _)
StonesToRemove(stones, n, firstRemovedId) ==
    IF n = 0 \/ stones[n].lastRecord < firstRemovedId
    THEN [num |-> 0, records |-> 0, bytes |-> 0]
    ELSE LET rest == StonesToRemove(stones, n - 1, firstRemovedId)
         IN  [num |-> rest.num + 1,
              records |-> rest.records + stones[n].records,
              bytes |-> rest.bytes + stones[n].bytes]

\* The records at which the model truncates: the newest ones.
TruncateAfterEnds == {id \in DOMAIN table : id >= OplogStartTime}

\* cappedTruncateAfter(opCtx, end, inclusive): the truncation in its unit of
\* work, committed, then _kvEngine->setOldestTimestamp(Timestamp(lastKeptId.repr()))
\* and updateStonesAfterCappedTruncateAfter(recordsRemoved, bytesRemoved, firstRemovedId).
CappedTruncateAfter(end, inclusive) ==
    /\ Exclusive
    /\ end \in DOMAIN table
    /\ LET firstRemovedId == IF inclusive THEN end ELSE CursorNext(DOMAIN table, end)
           removed == {id \in DOMAIN table : id >= firstRemovedId}
           recordsRemoved == Cardinality(removed)
           bytesRemoved == ScanBytes(table, removed)
           out == StonesToRemove(_stones, Len(_stones), firstRemovedId)
           newBytes == _currentBytes + (out.bytes - bytesRemoved)
           lastKeptId == IF inclusive THEN CursorPrev(DOMAIN table, end) ELSE end
       IN  /\ firstRemovedId # NullId
           /\ table' = [id \in DOMAIN table \ removed |-> table[id]]
           /\ _numRecords' = FetchAndAddClamp(_numRecords, -recordsRemoved)
           /\ _dataSize' = FetchAndAddClamp(_dataSize, -bytesRemoved)
           /\ _stones' = SubSeq(_stones, 1, Len(_stones) - out.num)
           /\ _currentRecords' = _currentRecords + (out.records - recordsRemoved)
           /\ _currentBytes' = newBytes
           /\ deferred' = (deferred \/ newBytes >= _minBytesPerStone)
           /\ oldestTimestamp' = IF kind = "oplog" THEN lastKeptId ELSE oldestTimestamp
    /\ UNCHANGED <<pc, txn, burned, _cappedMaxSize, oplogFixed>>
    /\ UNCHANGED <<_minBytesPerStone, firstRecord, _mutex, swapped, rpc, rstone, opTime>>
    /\ UNCHANGED cursorVars
    /\ UNCHANGED callerVars
    /\ UNCHANGED awaitVars

\* truncate(opCtx) in its own unit of work, committed: every record is removed,
\* the counters are brought to zero and TruncateChange::commit clears the stones.
Truncate ==
    /\ Exclusive
    /\ DOMAIN table # {}
    /\ table' = <<>>
    /\ _numRecords' = FetchAndAddClamp(_numRecords, -_numRecords)
    /\ _dataSize' = FetchAndAddClamp(_dataSize, -_dataSize)
    /\ _currentRecords' = 0
    /\ _currentBytes' = 0
    /\ _stones' = <<>>
    /\ deferred' = FALSE
    /\ UNCHANGED <<pc, txn, burned, _cappedMaxSize, oplogFixed>>
    /\ UNCHANGED <<_minBytesPerStone, firstRecord, _mutex, swapped, rpc, rstone, opTime>>
    /\ UNCHANGED cursorVars
    /\ UNCHANGED callerVars
    /\ UNCHANGED awaitVars
    /\ UNCHANGED engineVars

\* The sizes the oplog is resized to.
OplogResizes == {5000}

\* updateCappedSize(opCtx, cappedSize), which calls OplogStones::adjust:
\* invariant(_minBytesPerStone > 0) ends the process when it fails, else
\* _pokeReclaimThreadIfNeeded notifies one waiting thread if there are excess
\* stones.
UpdateCappedSize(cappedSize) ==
    /\ Exclusive
    /\ _cappedMaxSize # cappedSize
    /\ _cappedMaxSize' = cappedSize
    /\ _minBytesPerStone' = MinBytesPerStone(cappedSize)
    /\ IF MinBytesPerStone(cappedSize) > 0
       THEN /\ deferred' = (deferred \/ _currentBytes >= MinBytesPerStone(cappedSize))
            /\ IF /\ Len(_stones) > NumStonesToKeep(cappedSize)
                  /\ \E w \in Waiters : wpc[w] = "waiting"
               THEN \E w \in Waiters : /\ wpc[w] = "waiting"
                                       /\ wpc' = [wpc EXCEPT ![w] = "woken"]
               ELSE UNCHANGED wpc
            /\ UNCHANGED pc
       ELSE /\ pc' = [t \in Threads |-> "dead"]
            /\ UNCHANGED <<deferred, wpc>>
    /\ UNCHANGED <<table, _numRecords, _dataSize, txn, burned, oplogFixed>>
    /\ UNCHANGED <<_stones, _currentRecords, _currentBytes, firstRecord,
                   _mutex, swapped, rpc, rstone, opTime>>
    /\ UNCHANGED cursorVars
    /\ UNCHANGED callerVars
    /\ UNCHANGED <<_isDead, notifyPending, lockState>>
    /\ UNCHANGED engineVars

NextOplog ==
    \/ \E t \in Threads : BeginUnitOfWork(t)
    \/ \E t \in Threads, lens \in OplogBatches : OplogInsertRecords(t, lens)
    \/ \E t \in Threads : AbortUnitOfWork(t)
    \/ \E t \in Threads : OplogCommit(t)
    \/ \E t \in Threads : HookAddBytes(t)
    \/ \E t \in Threads : HookCreateBusy(t)
    \/ \E t \in Threads : HookCreateBegin(t)
    \/ \E t \in Threads : HookSwapBytes(t)
    \/ \E t \in Threads : HookUnlock(t)
    \/ ReclaimPeek
    \/ ReclaimTruncate
    \/ ReclaimConflict
    \/ ReclaimPop
    \/ ReclaimAdvance
    \/ \E end \in TruncateAfterEnds, inclusive \in BOOLEAN : CappedTruncateAfter(end, inclusive)
    \/ Truncate
    \/ \E cappedSize \in OplogResizes : UpdateCappedSize(cappedSize)

SpecOplog == InitOplog /\ [][NextOplog]_vars

\* ------------------------------------------------------ oplog stones: claims

SortedStones ==
    \A i \in 1..(Len(_stones) - 1) : _stones[i].lastRecord <= _stones[i + 1].lastRecord
StrictlySortedStones ==
    \A i \in 1..(Len(_stones) - 1) : _stones[i].lastRecord < _stones[i + 1].lastRecord

NoHookRunning == \A t \in Threads : pc[t] \in {"idle", "inTxn", "done"}

\* C6 as claimed: whenever no commit hook is executing, _currentBytes is below
\* _minBytesPerStone.
C6_Original == NoHookRunning => _currentBytes < _minBytesPerStone

\* C6 amended: whenever no commit hook is executing, _currentBytes is below
\* _minBytesPerStone unless, since the last stone was created, a hook gave up
\* creating one (the stone mutex was taken, or its record comes before the
\* newest stone) or cappedTruncateAfter, adjust or cold-start sampling left the
\* open segment at or above the threshold.
C6_OpenSegmentBelowThreshold ==
    (NoHookRunning /\ ~deferred) => _currentBytes < _minBytesPerStone

\* C6 witness: a stone has been closed and the open segment holds bytes again.
C6_Witness ==
    /\ NoHookRunning /\ ~deferred
    /\ startup = "empty" /\ Len(_stones) = 1 /\ _currentBytes = 500

\* The state after one batch, of 1000 + 1500 bytes, has been committed to an
\* empty log store with _minBytesPerStone = 1000 and its hook has run, nothing
\* else having been inserted.
C7_After ==
    /\ startup = "empty" /\ opTime = 2
    /\ _minBytesPerStone = 1000
    /\ \A t \in Threads : pc[t] = "idle"
    /\ DOMAIN table = {1, 2} /\ table[1] = 1000 /\ table[2] = 1500

\* C7 as claimed: the batch of 2500 bytes closes exactly 2 stones and leaves
\* about 500 bytes in the open segment.
C7_Original ==
    C7_After => (Len(_stones) = 2 /\ _currentBytes >= 400 /\ _currentBytes <= 600)

\* C7 amended: the batch of 2500 bytes closes exactly one stone, which holds
\* both records and all 2500 bytes and ends at the batch's highest id; the open
\* segment is left empty.
C7_OneStonePerCommit ==
    C7_After =>
        /\ Len(_stones) = 1
        /\ _stones[1].records = 2 /\ _stones[1].bytes = 2500 /\ _stones[1].lastRecord = 2
        /\ _currentBytes = 0 /\ _currentRecords = 0

\* C7 witness: that state is reached.
C7_Witness == C7_After /\ Len(_stones) = 1

\* C8: a successful iteration of reclaimOplog decreases numRecords() by the
\* oldest stone's records and dataSize() by its bytes, removes that stone from
\* the front of the list and sets firstRecord to its lastRecord.
C8_ReclaimExact ==
    [][/\ (rpc = "truncate" /\ rpc' = "pop") =>
              /\ _numRecords' = _numRecords - rstone.records
              /\ _dataSize' = _dataSize - rstone.bytes
       /\ (rpc = "pop" /\ rpc' = "popped") =>
              /\ Head(_stones).lastRecord = rstone.lastRecord
              /\ Head(_stones).records = rstone.records
              /\ Head(_stones).bytes = rstone.bytes
              /\ _stones' = Tail(_stones)
       /\ (rpc = "popped" /\ rpc' = "idle") => firstRecord' = rstone.lastRecord]_vars

\* C8 witness: an iteration has completed and a second stone is being reclaimed.
C8_Witness == firstRecord # NullId /\ rpc = "popped"

\* C9: no stone is reclaimed twice. The stone the reclaimer truncates is the
\* front one and has not been truncated before; once its truncation committed
\* it stays at the front until popped, whatever is appended meanwhile, and it
\* is gone before the next peek; a write conflict changes neither the counters
\* nor the stones nor the table.
C9_NoDoubleReclaim ==
    /\ [](/\ rpc = "truncate" =>
                (_stones # <<>> /\ Head(_stones) = rstone /\ ~rstone.truncated)
          /\ rpc = "pop" =>
                (_stones # <<>> /\ Head(_stones) = [rstone EXCEPT !.truncated = TRUE])
          /\ rpc \in {"idle", "popped"} =>
                (\A i \in 1..Len(_stones) : ~_stones[i].truncated))
    /\ [][(rpc = "truncate" /\ rpc' = "idle") =>
              UNCHANGED <<table, _numRecords, _dataSize, _stones, firstRecord>>]_vars

\* C9 witness: the reclaimer has committed a truncation and not popped yet
\* while two inserters appended stones.
C9_Witness == rpc = "pop" /\ Len(_stones) = 12

\* ------------------------------------------------------------------ cursors

\* RecordId::max() and RecordId::min(): above and below every id a record has.
RecordIdMax == MaxId + 1
RecordIdMin == -RecordIdMax

\* The prefix of the prefixed store the model opens, and the keys two other
\* collections may hold in the same table, below and above its own.
OwnPrefix == 2
NeighbourKeys == {Key(OwnPrefix - 1, MaxId), Key(OwnPrefix + 1, 1)}

\* The order of the table's keys: by prefix, then by record id.
KeyLess(a, b) == a.prefix < b.prefix \/ (a.prefix = b.prefix /\ a.id < b.id)
KeyMin(S) == CHOOSE k \in S : \A j \in S : k = j \/ KeyLess(k, j)
KeyMax(S) == CHOOSE k \in S : \A j \in S : k = j \/ KeyLess(j, k)

\* The keys of the table: the store's records under its prefix, and the
\* neighbours' keys.
KeysOf(tbl, prefix, others) == {Key(prefix, id) : id \in DOMAIN tbl} \union others
PhysKeys == KeysOf(table, _prefix, neighbours)

\* WT_CURSOR::next and ::prev: the key after / before the position; from an
\* unpositioned cursor the first / last key; NoKey stands for WT_NOTFOUND.
WT_next(keys, pos) ==
    LET after == IF pos = NoKey THEN keys ELSE {k \in keys : KeyLess(pos, k)}
    IN  IF after = {} THEN NoKey ELSE KeyMin(after)
WT_prev(keys, pos) ==
    LET before == IF pos = NoKey THEN keys ELSE {k \in keys : KeyLess(k, pos)}
    IN  IF before = {} THEN NoKey ELSE KeyMax(before)

\* The sides a search_near that finds no exact match may land on.
Lands == {"larger", "smaller"}

\* WT_CURSOR::search_near: the key itself (cmp = 0), else an adjacent key, the
\* smallest larger one (cmp > 0) or the largest smaller one (cmp < 0), else
\* WT_NOTFOUND. When both neighbours exist the engine lands on either: land is
\* the side it lands on in this call.
search_near(keys, key, land) ==
    LET larger == {k \in keys : KeyLess(key, k)}
        smaller == {k \in keys : KeyLess(k, key)}
        above == [pos |-> KeyMin(larger), cmp |-> 1]
        below == [pos |-> KeyMax(smaller), cmp |-> -1]
    IN  IF key \in keys THEN [pos |-> key, cmp |-> 0]
        ELSE IF larger # {} /\ smaller # {}
        THEN (IF land = "larger" THEN above ELSE below)
        ELSE IF larger # {} THEN above
        ELSE IF smaller # {} THEN below
        ELSE [pos |-> NoKey, cmp |-> 0]

\* hasWrongPrefix: false for a standard cursor; for a prefixed cursor, whether
\* the key belongs to another collection.
hasWrongPrefixNever(prefix, key) == FALSE
hasWrongPrefix(prefix, key) == prefix # 0 /\ key.prefix # prefix

\* initCursorToBeginning: nothing for a standard cursor; a prefixed cursor
\* seeks near <prefix, RecordId::min()> or <prefix, RecordId::max()>.
initCursorToBeginning(c, keys, prefix, land) ==
    IF prefix = 0 THEN c
    ELSE LET sn == search_near(keys, Key(prefix, IF c._forward THEN RecordIdMin
                                                                ELSE RecordIdMax), land)
             at == [c EXCEPT !.pos = sn.pos]
         IN  IF sn.pos = NoKey THEN [at EXCEPT !._eof = TRUE]
             ELSE IF c._forward
             THEN IF sn.cmp > 0
                  THEN IF hasWrongPrefix(prefix, sn.pos)
                       THEN [at EXCEPT !._eof = TRUE]
                       ELSE [at EXCEPT !._skipNextAdvance = TRUE]
                  ELSE [at EXCEPT !._eof = TRUE]
             ELSE IF sn.cmp > 0
                  THEN [at EXCEPT !._skipNextAdvance = FALSE]
                  ELSE IF hasWrongPrefix(prefix, sn.pos)
                       THEN [at EXCEPT !._eof = TRUE]
                       ELSE [at EXCEPT !._skipNextAdvance = TRUE]

\* getCursor: the standard constructor leaves the cursor unpositioned, the
\* prefixed constructor calls initCursorToBeginning.
getCursor(forward, keys, prefix, land) ==
    initCursorToBeginning(NewCursor(forward), keys, prefix, land)

\* next() without its comparison with _lastReturnedId.
nextUnchecked(c, keys, prefix) ==
    IF c._eof THEN [c |-> c, ret |-> RetNone]
    ELSE LET at == IF c._skipNextAdvance THEN c.pos
                   ELSE IF c._forward THEN WT_next(keys, c.pos)
                   ELSE WT_prev(keys, c.pos)
             c1 == [c EXCEPT !.pos = at, !._skipNextAdvance = FALSE]
         IN  IF ~c._skipNextAdvance /\ (at = NoKey \/ hasWrongPrefix(prefix, at))
             THEN [c |-> [c EXCEPT !.pos = at, !._eof = TRUE], ret |-> RetNone]
             ELSE IF at = NoKey \/ hasWrongPrefix(prefix, at)
             THEN [c |-> c1, ret |-> RetInvariant]
             ELSE [c |-> [c1 EXCEPT !._lastReturnedId = at.id], ret |-> RetRecord(at.id)]

\* next(): the cursor afterwards (c) and what is returned (ret).
next(c, keys, prefix) ==
    IF c._eof THEN [c |-> c, ret |-> RetNone]
    ELSE LET at == IF c._skipNextAdvance THEN c.pos
                   ELSE IF c._forward THEN WT_next(keys, c.pos)
                   ELSE WT_prev(keys, c.pos)
             c1 == [c EXCEPT !.pos = at, !._skipNextAdvance = FALSE]
         IN  IF ~c._skipNextAdvance /\ (at = NoKey \/ hasWrongPrefix(prefix, at))
             THEN [c |-> [c EXCEPT !.pos = at, !._eof = TRUE], ret |-> RetNone]
             ELSE IF at = NoKey \/ hasWrongPrefix(prefix, at)
             THEN [c |-> c1, ret |-> RetInvariant]
             ELSE IF c._forward /\ c._lastReturnedId >= at.id
             THEN [c |-> c1, ret |-> RetConflict]
             ELSE [c |-> [c1 EXCEPT !._lastReturnedId = at.id], ret |-> RetRecord(at.id)]

\* seekExact(id).
seekExact(c, keys, prefix, id) ==
    IF Key(prefix, id) \in keys
    THEN [c |-> [c EXCEPT !._skipNextAdvance = FALSE, !.pos = Key(prefix, id),
                          !._lastReturnedId = id, !._eof = FALSE],
          ret |-> RetRecord(id)]
    ELSE [c |-> [c EXCEPT !._skipNextAdvance = FALSE, !.pos = NoKey, !._eof = TRUE],
          ret |-> RetNone]

\* save(): _cursor->reset().
save(c) == [c EXCEPT !.pos = NoKey]

\* restore(): the cursor afterwards (c) and the value returned (ok).
restoreNoSeek(c, keys, prefix, isCapped, land) ==
    [c |-> [c EXCEPT !._skipNextAdvance = FALSE], ok |-> TRUE]
restore(c, keys, prefix, isCapped, land) ==
    LET c0 == [c EXCEPT !._skipNextAdvance = FALSE]
        sn == search_near(keys, Key(prefix, c._lastReturnedId), land)
        at == [c0 EXCEPT !.pos = sn.pos]
    IN  IF c._eof THEN [c |-> c0, ok |-> TRUE]
        ELSE IF c._lastReturnedId = NullId
        THEN [c |-> initCursorToBeginning(c0, keys, prefix, land), ok |-> TRUE]
        ELSE IF sn.pos = NoKey \/ hasWrongPrefix(prefix, sn.pos)
        THEN [c |-> [at EXCEPT !._eof = TRUE], ok |-> ~isCapped]
        ELSE IF sn.cmp = 0 THEN [c |-> at, ok |-> TRUE]
        ELSE IF isCapped THEN [c |-> [at EXCEPT !._eof = TRUE], ok |-> FALSE]
        ELSE [c |-> [at EXCEPT !._skipNextAdvance =
                         (c._forward /\ sn.cmp > 0) \/ (~c._forward /\ sn.cmp < 0)],
              ok |-> TRUE]

\* _isCapped.
IsCappedNever == FALSE
IsCapped == kind # "plain"

\* A store, standard or prefixed, capped or not, holding any records with ids
\* up to MaxId, and a cursor just obtained from getCursor(forward).
InitCursor ==
    \E ids \in SUBSET (1..MaxId), forward \in BOOLEAN, isCapped \in BOOLEAN,
       prefix \in {0, OwnPrefix}, others \in SUBSET NeighbourKeys, land \in Lands :
        /\ prefix = 0 => others = {}
        /\ table = [id \in ids |-> 1]
        /\ _numRecords = Cardinality(ids)
        /\ _dataSize = Cardinality(ids)
        /\ _nextIdNum = MaxId + 1
        /\ pc = [t \in Threads |-> "idle"]
        /\ txn = [t \in Threads |-> EmptyTxn]
        /\ idLog = <<>>
        /\ burned = {}
        /\ kind = IF isCapped THEN "capped" ELSE "plain"
        /\ _cappedMaxSize = IF isCapped THEN RecordIdMax ELSE -1
        /\ _cappedMaxDocs = -1
        /\ _cappedFirstRecord = NullId
        /\ _cappedDeleterMutex = "free"
        /\ overlapped = FALSE
        /\ reclaimFailed = FALSE
        /\ committedIds = {}
        /\ NoOplogStones
        /\ cursor = getCursor(forward, KeysOf(table, prefix, others), prefix, land)
        /\ _prefix = prefix
        /\ neighbours = others
        /\ cstate = "active"
        /\ expected = RetNone
        /\ mutated = FALSE
        /\ restoreRet = TRUE
        /\ justRestored = FALSE
        /\ NoKill
        /\ clientOp = [t \in Threads |-> NoOp]

cursorFixed == <<_nextIdNum, pc, txn, idLog, burned, cappedVars, oplogVars,
                 _prefix, neighbours, awaitVars, engineVars, callerVars>>

\* The client calls next().
CursorDoNext ==
    /\ cstate = "active"
    /\ cursor' = next(cursor, PhysKeys, _prefix).c
    /\ justRestored' = FALSE
    /\ UNCHANGED <<table, _numRecords, _dataSize, cursorFixed>>
    /\ UNCHANGED <<cstate, expected, mutated, restoreRet>>

\* The client calls seekExact(id).
CursorDoSeekExact(id) ==
    /\ cstate = "active"
    /\ cursor' = seekExact(cursor, PhysKeys, _prefix, id).c
    /\ justRestored' = FALSE
    /\ UNCHANGED <<table, _numRecords, _dataSize, cursorFixed>>
    /\ UNCHANGED <<cstate, expected, mutated, restoreRet>>

\* The client calls save() before it yields.
CursorDoSave ==
    /\ cstate = "active"
    /\ cursor' = save(cursor)
    /\ cstate' = "saved"
    /\ expected' = next(cursor, PhysKeys, _prefix).ret
    /\ mutated' = FALSE
    /\ justRestored' = FALSE
    /\ UNCHANGED <<table, _numRecords, _dataSize, cursorFixed, restoreRet>>

\* While the cursor is saved another operation removes a record and commits:
\* deleteRecord, or in a capped store cappedDeleteAsNeeded (the oldest record)
\* or cappedTruncateAfter (the newest).
RecordRemovedWhileSaved(id) ==
    /\ cstate = "saved"
    /\ id \in DOMAIN table
    /\ IsCapped => (id = SetMin(DOMAIN table) \/ id = SetMax(DOMAIN table))
    /\ table' = [i \in DOMAIN table \ {id} |-> table[i]]
    /\ _numRecords' = FetchAndAddClamp(_numRecords, -1)
    /\ _dataSize' = FetchAndAddClamp(_dataSize, -table[id])
    /\ mutated' = TRUE
    /\ UNCHANGED <<cursorFixed, cursor, cstate, expected, restoreRet, justRestored>>

\* While the cursor is saved another operation inserts a record and commits.
RecordInsertedWhileSaved(id) ==
    /\ cstate = "saved"
    /\ id \notin DOMAIN table
    /\ IsCapped => \A i \in DOMAIN table : i < id
    /\ table' = [i \in DOMAIN table \union {id} |-> 1]
    /\ _numRecords' = FetchAndAddClamp(_numRecords, 1)
    /\ _dataSize' = FetchAndAddClamp(_dataSize, 1)
    /\ mutated' = TRUE
    /\ UNCHANGED <<cursorFixed, cursor, cstate, expected, restoreRet, justRestored>>

\* The client calls restore() when it resumes.
CursorDoRestore(land) ==
    /\ cstate = "saved"
    /\ LET r == restore(cursor, PhysKeys, _prefix, IsCapped, land)
       IN  /\ cursor' = r.c
           /\ restoreRet' = r.ok
    /\ cstate' = "active"
    /\ justRestored' = TRUE
    /\ UNCHANGED <<table, _numRecords, _dataSize, cursorFixed, expected, mutated>>

NextCursor ==
    \/ CursorDoNext
    \/ \E id \in 1..MaxId : CursorDoSeekExact(id)
    \/ CursorDoSave
    \/ \E id \in 1..MaxId : RecordRemovedWhileSaved(id)
    \/ \E id \in 1..MaxId : RecordInsertedWhileSaved(id)
    \/ \E land \in Lands : CursorDoRestore(land)

SpecCursor == InitCursor /\ [][NextCursor]_vars

\* The WT_CURSOR loses its position while the record cursor is in use (the
\* session resets it, as when its transaction is rolled back): unpositioned,
\* its next() returns the first entry of the table and its prev() the last.
CursorReset ==
    /\ cstate = "active"
    /\ cursor.pos # NoKey
    /\ cursor' = [cursor EXCEPT !.pos = NoKey]
    /\ UNCHANGED <<table, _numRecords, _dataSize, cursorFixed>>
    /\ UNCHANGED <<cstate, expected, mutated, restoreRet, justRestored>>

\* A cursor that is advanced, saved and restored, never sought, over a table
\* that changes while it is saved, and an engine that may lose its position.
NextCursorReset ==
    \/ CursorDoNext
    \/ CursorDoSave
    \/ \E id \in 1..MaxId : RecordRemovedWhileSaved(id)
    \/ \E id \in 1..MaxId : RecordInsertedWhileSaved(id)
    \/ \E land \in Lands : CursorDoRestore(land)
    \/ CursorReset

SpecCursorReset == InitCursor /\ [][NextCursorReset]_vars

C10_SaveRestoreRoundTrip ==
    (cstate = "active" /\ justRestored /\ ~mutated) =>
        /\ restoreRet
        /\ next(cursor, PhysKeys, _prefix).ret = expected

\* C10 witness: a backward cursor restored mid-traversal of a capped store,
\* with a record still to return.
C10_Witness ==
    /\ cstate = "active" /\ justRestored /\ ~mutated
    /\ ~cursor._forward /\ IsCapped
    /\ cursor._lastReturnedId # NullId
    /\ expected.kind = "record"

\* A step of restore() on a cursor of a capped store whose last-returned
\* record is no longer in the table.
RestoreLostPosition ==
    /\ cstate = "saved" /\ cstate' = "active"
    /\ kind = "capped"
    /\ cursor._lastReturnedId # NullId
    /\ Key(_prefix, cursor._lastReturnedId) \notin PhysKeys

\* C11 as claimed: on a capped store, restore() of a cursor whose last-returned
\* record was removed while it was saved returns false and leaves the cursor
\* exhausted.
C11_Original ==
    [][RestoreLostPosition => (~restoreRet' /\ cursor'._eof)]_vars

\* C11 amended: on a capped store, restore() of a cursor whose last-returned
\* record was removed while it was saved leaves the cursor exhausted and
\* returns false, unless the cursor had already reached end-of-data when it was
\* saved, in which case restore() returns true; it never positions the cursor
\* on a later record, and an exhausted cursor stays exhausted, next() returning
\* no record, through any further next(), save() and restore().
C11_LostPositionExhausts ==
    /\ [][RestoreLostPosition =>
              /\ cursor'._eof /\ ~cursor'._skipNextAdvance
              /\ restoreRet' = cursor._eof]_vars
    /\ [][(kind = "capped" /\ cursor._eof /\ ~(\E id \in 1..MaxId : CursorDoSeekExact(id))) =>
              /\ cursor'._eof
              /\ next(cursor', PhysKeys', _prefix).ret = RetNone]_vars

\* C11 witness: restore() has returned false and the cursor was saved again.
C11_Witness == kind = "capped" /\ ~restoreRet /\ cstate = "saved" /\ cursor._eof

\* The nearest record in the direction of travel after the id last returned:
\* the smallest greater id for a forward cursor, the largest smaller id for a
\* backward one; no record when there is none.
NearestSurviving(forward, last, ids) ==
    LET ahead == {id \in ids : IF forward THEN id > last ELSE id < last}
    IN  IF ahead = {} THEN RetNone
        ELSE RetRecord(IF forward THEN SetMin(ahead) ELSE SetMax(ahead))

\* A step of restore() on a cursor of an ordinary store that has not reached
\* end-of-data and whose last-returned record is no longer in the table.
RestoreAfterDelete ==
    /\ cstate = "saved" /\ cstate' = "active"
    /\ kind = "plain"
    /\ ~cursor._eof
    /\ cursor._lastReturnedId # NullId
    /\ Key(_prefix, cursor._lastReturnedId) \notin PhysKeys

\* C12: on an ordinary store, standard or prefixed, restore() of a cursor whose
\* last-returned record was deleted while it was saved returns true, and the
\* next() that follows returns the nearest surviving record in the direction
\* of travel, whichever neighbour search_near landed on.
C12_ResumesAtNearest ==
    [][RestoreAfterDelete =>
          /\ restoreRet'
          /\ next(cursor', PhysKeys', _prefix).ret =
                 NearestSurviving(cursor._forward, cursor._lastReturnedId, DOMAIN table)]_vars

\* C13: a prefixed cursor never returns a record of another prefix. Whenever
\* next() or seekExact() returns a record the WT_CURSOR is positioned on a key
\* of the cursor's own prefix, which is in the table; next() never reads a
\* foreign key as its own (getKey's invariant never fails); and when next()
\* steps onto a key of another prefix it sets _eof and returns no record.
C13_OwnPrefixOnly ==
    [][/\ (_prefix # 0 /\ CursorDoNext) =>
              LET r == next(cursor, PhysKeys, _prefix)
              IN  /\ r.ret.kind # "invariant"
                  /\ r.ret.kind = "record" =>
                         /\ cursor'.pos = Key(_prefix, r.ret.id)
                         /\ r.ret.id \in DOMAIN table
                  /\ (cursor'.pos # NoKey /\ cursor'.pos.prefix # _prefix) =>
                         (cursor'._eof /\ r.ret = RetNone)
       /\ \A id \in 1..MaxId : (_prefix # 0 /\ CursorDoSeekExact(id)) =>
              LET r == seekExact(cursor, PhysKeys, _prefix, id)
              IN  r.ret.kind = "record" =>
                      (cursor'.pos = Key(_prefix, id) /\ id \in DOMAIN table)]_vars

\* C13 witness: a forward traversal has returned the collection's last record
\* and then stepped onto the first key of the collection with the next prefix.
C13_Witness ==
    /\ _prefix # 0 /\ cstate = "active" /\ cursor._forward
    /\ cursor._eof /\ cursor.pos \in neighbours
    /\ cursor._lastReturnedId \in DOMAIN table

\* The oplog with clients that insert and clients that update records.
NextOplogUpdate ==
    \/ \E t \in Threads : BeginUnitOfWork(t)
    \/ \E t \in Threads, lens \in OplogBatches : OplogInsertRecords(t, lens)
    \/ \E t \in Threads, ids \in DirectBatches, debug \in BOOLEAN :
           OplogInsertDirect(t, ids, debug)
    \/ \E t \in Threads, id \in OplogUpdateIds :
           \E len \in OplogUpdateLens(id) : OplogUpdateRecord(t, id, len)
    \/ \E t \in Threads : AbortUnitOfWork(t)
    \/ \E t \in Threads : OplogCommit(t)
    \/ \E t \in Threads : OplogCommitUpdate(t)
    \/ \E t \in Threads : HookAddBytes(t)
    \/ \E t \in Threads : HookCreateBusy(t)
    \/ \E t \in Threads : HookCreateBegin(t)
    \/ \E t \in Threads : HookSwapBytes(t)
    \/ \E t \in Threads : HookUnlock(t)

SpecOplogUpdate == InitOplog /\ [][NextOplogUpdate]_vars

\* C14: updateRecord on the oplog with a length other than the stored record's
\* returns IllegalOperation and changes nothing: the table, the writes of the
\* unit of work, dataSize(), numRecords(), the stones and the open segment's
\* totals; an update that keeps the length is performed and leaves dataSize()
\* unchanged, and its commit leaves the table's lengths as they were.
C14_OplogUpdateKeepsLength ==
    [][\A t \in Threads : \A id \in DOMAIN table :
          /\ \A len \in OplogUpdateLens(id) : OplogUpdateRecord(t, id, len) =>
               /\ UNCHANGED <<table, _dataSize, _numRecords, _stones, _currentRecords,
                              _currentBytes>>
               /\ len # table[id] =>
                      (pc'[t] = "illegalOp" /\ txn'[t] = txn[t])
               /\ len = table[id] =>
                      (pc'[t] = "updated" /\ txn'[t].ins[id] = len)
          /\ (pc[t] = "updated" /\ pc'[t] = "idle") =>
               UNCHANGED <<table, _dataSize, _numRecords, _stones, _currentRecords,
                           _currentBytes>>]_vars

\* C14 witness: one update was rejected while another, which keeps the
\* length, was performed, on an oplog that has stones.
C14_Witness ==
    /\ pc["t1"] = "illegalOp" /\ pc["t2"] = "updated"
    /\ _stones # <<>>

\* ------------------------------------------- rollback of the counters

\* The operations one unit of work performs before it commits or aborts.
MaxOps == 2

\* truncate(): nothing visible returns OK untouched; otherwise the engine
\* removes every record the transaction sees (WT_ROLLBACK on a record another
\* transaction removed is a WriteConflictException, thrown before the counters
\* are touched) and the counters are lowered by what they read at that moment.
\* On the oplog clearStonesOnCommit registers a TruncateChange; the oplog is
\* truncated under the exclusive lock, where the snapshot is the table.
TruncateStore(t) ==
    /\ pc[t] = "inTxn"
    /\ LET snap == IF kind = "oplog" THEN DOMAIN table ELSE txn[t].snap
           seen == ((snap \intersect DOMAIN table) \ txn[t].del) \union DOMAIN txn[t].ins
       IN  IF seen = {}
           THEN /\ pc' = [pc EXCEPT ![t] = "done"]
                /\ UNCHANGED <<txn, _numRecords, _dataSize>>
           ELSE IF \E id \in snap \ txn[t].del : RemoveConflicts(t, id)
           THEN /\ pc' = [pc EXCEPT ![t] = "failed"]
                /\ UNCHANGED <<txn, _numRecords, _dataSize>>
           ELSE /\ pc' = [pc EXCEPT ![t] = "done"]
                /\ txn' = [txn EXCEPT
                       ![t].ins = <<>>,
                       ![t].del = snap,
                       ![t].changes = txn[t].changes \o
                                      <<[kind |-> "num", diff |-> -_numRecords],
                                        [kind |-> "size", diff |-> -_dataSize]>> \o
                                      (IF kind = "oplog"
                                       THEN <<[kind |-> "stones", diff |-> 0]>> ELSE <<>>)]
                /\ _numRecords' = FetchAndAddClamp(_numRecords, -_numRecords)
                /\ _dataSize' = FetchAndAddClamp(_dataSize, -_dataSize)
    /\ UNCHANGED <<table, _nextIdNum, idLog, burned, cappedVars>>
    /\ UNCHANGED oplogVars
    /\ UNCHANGED cursorVars
    /\ UNCHANGED callerVars
    /\ UNCHANGED awaitVars
    /\ UNCHANGED engineVars

\* updateRecord(id, len) of a record this unit of work wrote itself (so no
\* other transaction can conflict on it): the value is replaced and the size
\* counter moves by len - old_length.
UpdateRecord(t, id, len) ==
    /\ pc[t] = "inTxn"
    /\ id \in DOMAIN txn[t].ins
    /\ LET old_length == txn[t].ins[id]
       IN  /\ txn' = [txn EXCEPT
                  ![t].ins = [txn[t].ins EXCEPT ![id] = len],
                  ![t].changes = txn[t].changes \o
                                 <<[kind |-> "size", diff |-> len - old_length]>>]
           /\ _dataSize' = FetchAndAddClamp(_dataSize, len - old_length)
    /\ pc' = [pc EXCEPT ![t] = "done"]
    /\ UNCHANGED <<table, _numRecords, _nextIdNum, idLog, burned, cappedVars>>
    /\ UNCHANGED oplogVars
    /\ UNCHANGED cursorVars
    /\ UNCHANGED callerVars
    /\ UNCHANGED awaitVars
    /\ UNCHANGED engineVars

\* The unit of work goes on to another operation before it ends.
NextOperation(t) ==
    /\ pc[t] = "done"
    /\ Len(txn[t].changes) < 2 * (MaxOps - 1) + 1
    /\ pc' = [pc EXCEPT ![t] = "inTxn"]
    /\ UNCHANGED <<table, _numRecords, _dataSize, _nextIdNum, txn, idLog, burned, cappedVars>>
    /\ UNCHANGED oplogVars
    /\ UNCHANGED cursorVars
    /\ UNCHANGED callerVars
    /\ UNCHANGED awaitVars
    /\ UNCHANGED engineVars

\* No unit of work starts once the ids of the bound have been handed out.
NextRollback ==
    \/ \E t \in Threads : _nextIdNum <= MaxId /\ BeginUnitOfWork(t)
    \/ \E t \in Threads : InsertRecords(t, <<5>>)
    \/ \E t \in Threads : NextId(t)
    \/ \E t \in Threads : WriteRecords(t)
    \/ \E t \in Threads, id \in 1..MaxId : DeleteRecord(t, id)
    \/ \E t \in Threads : TruncateStore(t)
    \/ \E t \in Threads, id \in 1..MaxId : UpdateRecord(t, id, 1)
    \/ \E t \in Threads : NextOperation(t)
    \/ \E t \in Threads : CommitUnitOfWork(t)
    \/ \E t \in Threads : AbortUnitOfWork(t)

SpecRollback == Init /\ [][NextRollback]_vars

\* The sum of the diffs the Change objects of one kind were registered with.
RECURSIVE SumDiffs(_, _)
SumDiffs(changes, k) ==
    IF changes = <<>> THEN 0
    ELSE (IF Head(changes).kind = k THEN Head(changes).diff ELSE 0) + SumDiffs(Tail(changes), k)

\* C15: when a unit of work that inserted, deleted, updated or truncated
\* aborts, its rollback takes out of numRecords() and dataSize() exactly what
\* the unit of work had put in, whatever other transactions did to the
\* counters meanwhile.
C15_AbortRestoresCounters ==
    [][\A t \in Threads : AbortUnitOfWork(t) =>
          /\ _numRecords' = _numRecords - SumDiffs(txn[t].changes, "num")
          /\ _dataSize' = _dataSize - SumDiffs(txn[t].changes, "size")]_vars

\* C33 as stated: whatever _changeNumRecords, _increaseDataSize and their
\* rollbacks did, numRecords() and dataSize() are not negative.
C33_Original == _numRecords >= 0 /\ _dataSize >= 0

\* The ids of a batch all exceed the highest id assigned so far, by earlier
\* batches and earlier in the batch.
ExceedHighest(ids, highest) ==
    \A i \in 1..Len(ids) : ids[i] > (IF i = 1 THEN highest ELSE ids[i - 1])

C17_Original ==
    [][\A t \in Threads : CappedDeleteInLock(t) => JustInserted(t) \in committedIds]_vars

\* C17: the reclaimer of a capped store runs inside the insert, while the
\* inserting unit of work is still uncommitted; when that unit of work aborts
\* afterwards, its rollback takes back the insert's own counter changes only
\* and what the reclaimer removed stays removed.
C17_ReclaimBeforeCommit ==
    [][\A t \in Threads :
          /\ (CappedDeleteInLock(t) \/ CappedDeleteConflict(t) \/ CappedNoDelete(t)) =>
                 /\ JustInserted(t) \notin committedIds
                 /\ JustInserted(t) \in DOMAIN txn[t].ins
          /\ AbortUnitOfWork(t) =>
                 /\ table' = table
                 /\ _cappedFirstRecord' = _cappedFirstRecord
                 /\ _numRecords' = _numRecords - SumDiffs(txn[t].changes, "num")
                 /\ _dataSize' = _dataSize - SumDiffs(txn[t].changes, "size")]_vars

\* C17 witness: three one-byte records were committed one after the other;
\* the fourth insert's reclaimer removed the oldest and the insert then
\* aborted, leaving two records.
C17_Witness ==
    /\ Quiescent /\ ~overlapped
    /\ _cappedMaxDocs = 3
    /\ committedIds = {1, 2, 3}
    /\ burned = {4}
    /\ DOMAIN table = {2, 3}
    /\ _numRecords = 2

\* C39: when a unit of work whose insert has been through the reclaimer
\* aborts, what the reclaimer removed stays removed, the records of the insert
\* are not in the store, and once no other unit of work is open numRecords()
\* and dataSize() are the totals of the records stored.
C39_AbortAfterReclaim ==
    [][\A t \in Threads :
          (AbortUnitOfWork(t) /\ pc[t] = "done") =>
              /\ table' = table
              /\ _cappedFirstRecord' = _cappedFirstRecord
              /\ \A i \in 1..Len(txn[t].ids) : txn[t].ids[i] \notin DOMAIN table'
              /\ (\A u \in Threads \ {t} : pc[u] = "idle") =>
                     /\ _numRecords' = Cardinality(DOMAIN table')
                     /\ _dataSize' = ScanBytes(table', DOMAIN table')]_vars

\* C39 witness: the store held two of 15 bytes (its limit is 30); the
\* reclaimer removed the oldest for a third, whose unit of work then aborted.
C39_Witness ==
    /\ Quiescent
    /\ _cappedMaxDocs = -1
    /\ committedIds = {1, 2}
    /\ burned = {3}
    /\ DOMAIN table = {2}
    /\ _dataSize = 15

\* C18: at most one thread at a time executes cappedDeleteAsNeeded_inlock, and
\* it holds _cappedDeleterMutex while it does, so never while the destructor
\* holds it.
C18_SingleDeleter ==
    \A t \in Threads :
        pc[t] = "inlock" =>
            /\ _cappedDeleterMutex = t
            /\ \A u \in Threads \ {t} : pc[u] # "inlock"

\* C18 witness: one thread is inside cappedDeleteAsNeeded_inlock while the
\* other, over the limit as well, waits for the mutex.
C18_Witness ==
    /\ pc["t1"] = "inlock"
    /\ pc["t2"] = "waitlock"
    /\ cappedAndNeedDelete

\* A thread on its way into the reclaimer can take a step of its own: it is
\* not blocked on _cappedDeleterMutex.
NotBlockedOnDeleterMutex(t) ==
    /\ pc[t] = "capped" =>
           ENABLED (CappedNoDelete(t) \/ CappedLock(t) \/ CappedTryLockFail(t))
    /\ pc[t] = "waitlock" =>
           ENABLED (CappedWaitGotLock(t) \/ CappedWaitTimeout(t))

\* What a thread that did not get _cappedDeleterMutex at once does next: with
\* an overage below the slack it returns without deleting, else it waits; the
\* wait ends in the pass only with the mutex obtained and an overage of at
\* least twice the slack, and in a return without deleting otherwise.
BackPressureSteps ==
    \A t \in Threads :
        LET overage == _dataSize - _cappedMaxSize
            untouched == /\ table' = table
                         /\ _numRecords' = _numRecords
                         /\ _dataSize' = _dataSize
                         /\ _cappedFirstRecord' = _cappedFirstRecord
                         /\ _cappedDeleterMutex' = _cappedDeleterMutex
        IN  /\ (/\ pc[t] = "capped" /\ pc'[t] # "capped"
                /\ cappedAndNeedDelete
                /\ _cappedMaxDocs = -1
                /\ _cappedDeleterMutex # "free") =>
                   /\ pc'[t] = IF overage < CappedMaxSizeSlack THEN "done" ELSE "waitlock"
                   /\ untouched
            /\ (pc[t] = "waitlock" /\ pc'[t] # "waitlock") =>
                   IF _cappedDeleterMutex = "free" /\ overage >= 2 * CappedMaxSizeSlack
                   THEN pc'[t] = "inlock" /\ _cappedDeleterMutex' = t
                   ELSE pc'[t] = "done" /\ untouched

\* C19 as stated: no inserting thread of a capped store ever blocks on the
\* deleter mutex, and the back-pressure steps are as described.
C19_Original ==
    /\ [](\A t \in Threads : NotBlockedOnDeleterMutex(t))
    /\ [][BackPressureSteps]_vars

\* C19: in a capped store without a document limit no inserting thread ever
\* blocks on the deleter mutex: one that fails try_lock returns without
\* deleting when the overage is below the slack, else waits for the bounded
\* try_lock_for and then deletes only if it got the mutex and the overage is
\* at least twice the slack, returning without deleting in every other case.
C19_BackPressure ==
    /\ [](_cappedMaxDocs = -1 => \A t \in Threads : NotBlockedOnDeleterMutex(t))
    /\ [][BackPressureSteps]_vars

\* C19 witness: a thread that failed try_lock and waited finds the mutex free
\* with the overage at least twice the slack.
C19_Witness ==
    /\ pc["t1"] = "waitlock"
    /\ _cappedDeleterMutex = "free"
    /\ (_dataSize - _cappedMaxSize) >= 2 * CappedMaxSizeSlack

\* C20: whichever way cappedDeleteAsNeeded_inlock ends (records removed, soft
\* truncate failure, write conflict, another exception), the caller's unit of
\* work is what it was before the pass: its writes and its registered changes
\* are untouched, and the pass's own counter changes belong to the side
\* transaction. A write conflict is swallowed: the caller goes on (no
\* exception) and the table, numRecords(), dataSize() and _cappedFirstRecord
\* are unchanged; only another exception reaches the caller.
C20_SideTransactionIsolated ==
    [][\A t \in Threads :
          /\ (pc[t] = "inlock" /\ pc'[t] # "inlock") =>
                 /\ txn'[t] = txn[t]
                 /\ pc'[t] \in {"done", "failed"}
                 /\ _cappedDeleterMutex' = "free"
                 /\ pc'[t] = "failed" => CappedDeleteThrows(t)
          /\ CappedDeleteConflict(t) =>
                 /\ pc'[t] = "done"
                 /\ table' = table
                 /\ _numRecords' = _numRecords
                 /\ _dataSize' = _dataSize
                 /\ _cappedFirstRecord' = _cappedFirstRecord]_vars

\* C20 witness: a lone inserter's pass met a write conflict; the insert is
\* still open and the store is still over its limit.
C20_Witness ==
    /\ ~overlapped
    /\ pc["t1"] = "done" /\ txn["t1"].ins # <<>>
    /\ reclaimFailed
    /\ _cappedDeleterMutex = "free"
    /\ cappedAndNeedDelete

\* C21: one pass of the capped reclaimer removes only records with ids below
\* justInserted, at most 20000 of them (and at most cap of them were the
\* loop's limit cap), goes on exactly until the byte overage and the document
\* overage read at entry are both covered or no older record is left, lowers
\* numRecords() and dataSize() by the count and bytes of what it removed, and
\* sets _cappedFirstRecord to the first id left after the removed range.
C21_OnePass ==
    [][\A t \in Threads :
          CappedDeleteInLock(t) =>
            LET removed == DOMAIN table \ DOMAIN table'
                bytes == ScanBytes(table, removed)
                sizeOver == IF _dataSize > _cappedMaxSize THEN _dataSize - _cappedMaxSize ELSE 0
                docsOver == IF _cappedMaxDocs # -1 /\ _numRecords > _cappedMaxDocs
                            THEN _numRecords - _cappedMaxDocs ELSE 0
                from == IF _cappedFirstRecord \in DOMAIN table THEN _cappedFirstRecord ELSE NullId
                older == {id \in DOMAIN table : id >= from /\ id < JustInserted(t)}
            IN  /\ \A id \in removed : id < JustInserted(t)
                /\ DOMAIN table' \subseteq DOMAIN table
                /\ Cardinality(removed) <= CappedMaxDocsPerPass
                /\ \A cap \in 1..2 :
                       CappedWalkUpTo(table, CappedWalkStart(table), JustInserted(t),
                                      sizeOver, docsOver, cap).docsRemoved <= cap
                /\ (bytes >= sizeOver /\ Cardinality(removed) >= docsOver) \/ removed = older
                /\ removed # {} =>
                       LET last == SetMax(removed)
                       IN  /\ removed = {id \in older : id <= last}
                           /\ \/ bytes - table[last] < sizeOver
                              \/ Cardinality(removed) - 1 < docsOver
                           /\ _cappedFirstRecord' = CursorNext(DOMAIN table, last)
                /\ _numRecords' = _numRecords - Cardinality(removed)
                /\ _dataSize' = _dataSize - bytes]_vars

\* C21 witness: a store limited to three documents held five; the pass for
\* record 5 removed the two oldest and left record 3 as the oldest.
C21_Witness ==
    /\ _cappedMaxDocs = 3
    /\ _cappedFirstRecord = 3
    /\ DOMAIN table = {3, 4}
    /\ _numRecords = 3
    /\ \E t \in Threads : pc[t] = "done" /\ JustInserted(t) = 5

\* ------------------------------------- waiting for oplog deletion requests

\* What the await actions leave alone.
awaitFixed == <<coreVars, cappedVars, oplogVars, cursorVars, engineVars, callerVars>>

\* yieldAndAwaitOplogDeletionRequest up to the wait, called by a thread that
\* holds a collection lock (taken first by a thread that holds none yet, and
\* granted only when compatible with the locks of the others):
\* saveLockStateAndUnlock(&snapshot), invariant(releasedAnyLocks),
\* abandonSnapshot().
AwaitYieldKeepsLocks(w) ==
    /\ wpc[w] = "out"
    /\ \E m \in {"IX", "X"}, a \in BOOLEAN :
           /\ lockState[w].held \in {"none", m}
           /\ lockState[w].held = "none" =>
                  /\ \A u \in Waiters \ {w} : lockState[u].held \in {"none"} \cup ({"IX"} \ {m})
                  /\ m = "X" => pc["t1"] = "idle"
           /\ lockState' = [lockState EXCEPT ![w] = [held |-> m, saved |-> m, active |-> a]]
    /\ wpc' = [wpc EXCEPT ![w] = "yielded"]
    /\ UNCHANGED <<_isDead, notifyPending, awaitFixed>>
AwaitYield(w) ==
    /\ wpc[w] = "out"
    /\ \E m \in {"IX", "X"} :
           /\ lockState[w].held \in {"none", m}
           /\ lockState[w].held = "none" =>
                  /\ \A u \in Waiters \ {w} : lockState[u].held \in {"none"} \cup ({"IX"} \ {m})
                  /\ m = "X" => pc["t1"] = "idle"
           /\ lockState' = [lockState EXCEPT
                               ![w] = [held |-> "none", saved |-> m, active |-> FALSE]]
    /\ wpc' = [wpc EXCEPT ![w] = "yielded"]
    /\ UNCHANGED <<_isDead, notifyPending, awaitFixed>>

\* awaitHasExcessStonesOrDead, one turn of its loop in two steps. On entry
\* ("yielded") or after a wake-up the thread takes _oplogReclaimMutex (on
\* entry by the unique_lock, after a wake-up inside wait()) and is "locked".
\* Then while (!_isDead), and with _mutex taken if (hasExcessStones_inlock())
\* break. A thread that found neither keeps _oplogReclaimMutex ("checked")
\* until it calls _oplogReclaimCv.wait(lock).
AwaitCheckOnce(w) ==
    /\ IF wpc[w] \in {"yielded", "woken"}
       THEN /\ \A u \in Waiters : wpc[u] \notin {"locked", "checked"}
            /\ wpc' = [wpc EXCEPT ![w] = IF wpc[w] = "woken" THEN "ret" ELSE "locked"]
       ELSE /\ wpc[w] = "locked"
            /\ _isDead \/ _mutex = "free"
            /\ wpc' = [wpc EXCEPT ![w] = IF _isDead \/ hasExcessStones_inlock
                                         THEN "ret" ELSE "checked"]
    /\ UNCHANGED <<_isDead, notifyPending, lockState, awaitFixed>>
AwaitCheck(w) ==
    /\ IF wpc[w] \in {"yielded", "woken"}
       THEN /\ \A u \in Waiters : wpc[u] \notin {"locked", "checked"}
            /\ wpc' = [wpc EXCEPT ![w] = "locked"]
       ELSE /\ wpc[w] = "locked"
            /\ _isDead \/ _mutex = "free"
            /\ wpc' = [wpc EXCEPT ![w] = IF _isDead \/ hasExcessStones_inlock
                                         THEN "ret" ELSE "checked"]
    /\ UNCHANGED <<_isDead, notifyPending, lockState, awaitFixed>>

\* _oplogReclaimCv.wait(lock): the thread releases _oplogReclaimMutex and
\* blocks on the condition variable.
AwaitBlock(w) ==
    /\ wpc[w] = "checked"
    /\ wpc' = [wpc EXCEPT ![w] = "waiting"]
    /\ UNCHANGED <<_isDead, notifyPending, lockState, awaitFixed>>

\* _oplogReclaimCv.wait(lock) ends by a spurious wake-up.
Wake(w) ==
    /\ wpc[w] = "waiting"
    /\ wpc' = [wpc EXCEPT ![w] = "woken"]
    /\ UNCHANGED <<_isDead, notifyPending, lockState, awaitFixed>>

\* kill(), the block under _oplogReclaimMutex: _isDead = true.
Kill ==
    /\ ~_isDead
    /\ \A u \in Waiters : wpc[u] \notin {"locked", "checked"}
    /\ _isDead' = TRUE
    /\ notifyPending' = TRUE
    /\ UNCHANGED <<wpc, lockState, awaitFixed>>

\* kill(), after the block: _oplogReclaimCv.notify_one() wakes one of the
\* threads that wait, if any does.
KillNotify ==
    /\ notifyPending
    /\ notifyPending' = FALSE
    /\ IF \E w \in Waiters : wpc[w] = "waiting"
       THEN \E w \in Waiters : /\ wpc[w] = "waiting"
                               /\ wpc' = [wpc EXCEPT ![w] = "woken"]
       ELSE UNCHANGED wpc
    /\ UNCHANGED <<_isDead, lockState, awaitFixed>>

\* yieldAndAwaitOplogDeletionRequest after the wait:
\* restoreLockState(snapshot), which waits until the saved lock can be granted
\* again, and return !isDead() (under _oplogReclaimMutex); on true the thread
\* reclaims and calls again, on false it ends.
AwaitReturn(w) ==
    /\ wpc[w] = "ret"
    /\ \A u \in Waiters : wpc[u] \notin {"locked", "checked"}
    /\ \A u \in Waiters \ {w} :
           lockState[u].held \in {"none"} \cup ({"IX"} \ {lockState[w].saved})
    /\ lockState[w].saved = "X" => pc["t1"] = "idle"
    /\ lockState' = [lockState EXCEPT ![w].held = lockState[w].saved, ![w].saved = "none"]
    /\ wpc' = [wpc EXCEPT ![w] = IF _isDead THEN "exited" ELSE "out"]
    /\ UNCHANGED <<_isDead, notifyPending, awaitFixed>>

\* The oplog with one inserting client (whose stones make the excess), the
\* waiting threads and kill().
NextAwait ==
    \/ (\A w \in Waiters : lockState[w].held # "X") /\ BeginUnitOfWork("t1")
    \/ OplogInsertRecords("t1", <<1000>>)
    \/ OplogCommit("t1")
    \/ HookAddBytes("t1")
    \/ HookCreateBegin("t1")
    \/ HookSwapBytes("t1")
    \/ HookUnlock("t1")
    \/ \E w \in Waiters : AwaitYield(w)
    \/ \E w \in Waiters : AwaitCheck(w)
    \/ \E w \in Waiters : AwaitBlock(w)
    \/ \E w \in Waiters : Wake(w)
    \/ Kill
    \/ KillNotify
    \/ \E w \in Waiters : AwaitReturn(w)

\* Every thread gets to run: a thread that can take its next step takes it.
SpecAwait ==
    /\ InitOplog
    /\ [][NextAwait]_vars
    /\ \A w \in Waiters : /\ WF_vars(AwaitCheck(w))
                          /\ WF_vars(AwaitBlock(w))
                          /\ WF_vars(AwaitReturn(w))
    /\ WF_vars(KillNotify)
    /\ WF_vars(HookSwapBytes("t1")) /\ WF_vars(HookUnlock("t1"))

\* C22 as stated: after kill() every thread inside
\* awaitHasExcessStonesOrDead eventually returns, and its
\* yieldAndAwaitOplogDeletionRequest returns false.
C22_Original ==
    \A w \in Waiters :
        (_isDead /\ wpc[w] \in {"waiting", "woken", "ret"}) ~> (wpc[w] = "exited")

\* What kill() does give: the kill flag, once set, stays set; after kill() a
\* thread that is inside awaitHasExcessStonesOrDead but not blocked on the
\* condition variable leaves it, and its yieldAndAwaitOplogDeletionRequest
\* returns false once its locks are granted again; a blocked thread is sure
\* to leave when it is the only one blocked at the notify_one.
KillWakesOne ==
    /\ [][_isDead => _isDead']_vars
    /\ [][\A w \in Waiters : (_isDead /\ wpc[w] = "ret" /\ wpc'[w] # "ret") =>
                                 wpc'[w] = "exited"]_vars
    /\ \A w \in Waiters :
           /\ (_isDead /\ wpc[w] = "woken") ~> (wpc[w] \in {"ret", "exited"})
           /\ (/\ notifyPending /\ wpc[w] = "waiting"
               /\ \A u \in Waiters \ {w} : wpc[u] # "waiting")
                  ~> (wpc[w] \in {"ret", "exited"})

\* C23: awaitHasExcessStonesOrDead returns only from a check that found the
\* kill flag set or excess stones; after a wake-up that finds neither, the
\* thread waits again.
C23_RecheckAfterWake ==
    [][\A w \in Waiters :
          /\ (wpc[w] # "ret" /\ wpc'[w] = "ret") =>
                 (wpc[w] = "locked" /\ (_isDead \/ hasExcessStones_inlock))
          /\ (wpc[w] = "woken" /\ wpc'[w] # "woken") => wpc'[w] = "locked"
          /\ (wpc[w] = "locked" /\ wpc'[w] # "locked"
              /\ ~_isDead /\ ~hasExcessStones_inlock) => wpc'[w] = "checked"]_vars

\* C23 witness: a thread was woken while the oplog has no excess stones and
\* nobody called kill().
C23_Witness ==
    /\ wpc["w1"] = "woken"
    /\ ~_isDead
    /\ ~hasExcessStones_inlock
    /\ _stones # <<>>

\* A thread is inside yieldAndAwaitOplogDeletionRequest, between its unlock
\* and its restoreLockState.
Yielded(w) == wpc[w] \in {"yielded", "locked", "checked", "waiting", "woken", "ret"}

\* The steps of the inserting client, with and without regard to the
\* collection locks of the waiting threads.
InserterStep ==
    \/ (\A w \in Waiters : lockState[w].held # "X") /\ BeginUnitOfWork("t1")
    \/ OplogInsertRecords("t1", <<1000>>)
    \/ OplogCommit("t1")
    \/ HookAddBytes("t1")
    \/ HookCreateBegin("t1")
    \/ HookSwapBytes("t1")
    \/ HookUnlock("t1")
InserterStepAlone ==
    \/ BeginUnitOfWork("t1")
    \/ OplogInsertRecords("t1", <<1000>>)
    \/ OplogCommit("t1")
    \/ HookAddBytes("t1")
    \/ HookCreateBegin("t1")
    \/ HookSwapBytes("t1")
    \/ HookUnlock("t1")

\* C31: a thread inside yieldAndAwaitOplogDeletionRequest holds no collection
\* lock and no storage snapshot, only its saved LockSnapshot, and holds
\* _mutex in no state, so that while the threads are inside, the inserting
\* client can take every step it could take without them, stone creation
\* included; on return the thread holds exactly the lock it released.
C31_WaiterHoldsNothing ==
    /\ [](\A w \in Waiters :
             Yielded(w) => /\ lockState[w].held = "none"
                           /\ ~lockState[w].active
                           /\ lockState[w].saved \in {"IX", "X"}
                           /\ _mutex # w)
    /\ []((\A w \in Waiters : Yielded(w)) =>
              (ENABLED InserterStepAlone => ENABLED InserterStep))
    /\ [][\A w \in Waiters :
              (wpc[w] = "ret" /\ wpc'[w] # "ret") =>
                  /\ lockState'[w].held = lockState[w].saved
                  /\ lockState'[w].held # "none"]_vars

\* C31 witness: a thread that released an exclusive lock is blocked on the
\* condition variable while the client creates a stone.
C31_Witness ==
    /\ wpc["w1"] = "waiting"
    /\ lockState["w1"].saved = "X"
    /\ pc["t1"] = "hookSwap"

\* C34 as stated: a thread inside awaitHasExcessStonesOrDead when a stone
\* creation makes hasExcessStones_inlock true, the window between its check
\* under _mutex and its wait included, eventually returns.
C34_Original ==
    \A w \in Waiters :
        (wpc[w] = "checked" /\ hasExcessStones_inlock)
            ~> (wpc[w] \in {"ret", "out", "exited"})

\* The oplog with every user of _mutex and _oplogReclaimMutex: the inserting
\* client, one waiting thread, kill(), the reclaimer (peek, pop),
\* cappedTruncateAfter, truncate and updateCappedSize (adjust).
NextMutex ==
    \/ BeginUnitOfWork("t1")
    \/ OplogInsertRecords("t1", <<1000>>)
    \/ OplogCommit("t1")
    \/ HookAddBytes("t1")
    \/ HookCreateBusy("t1")
    \/ HookCreateBegin("t1")
    \/ HookSwapBytes("t1")
    \/ HookUnlock("t1")
    \/ \E w \in {"w1"} : AwaitYield(w) /\ lockState'[w].saved = "IX"
    \/ \E w \in {"w1"} : AwaitCheck(w)
    \/ \E w \in {"w1"} : AwaitBlock(w)
    \/ \E w \in {"w1"} : AwaitReturn(w)
    \/ Kill
    \/ KillNotify
    \/ ReclaimPeek
    \/ ReclaimTruncate
    \/ ReclaimConflict
    \/ ReclaimPop
    \/ ReclaimAdvance
    \/ \E end \in TruncateAfterEnds, inclusive \in BOOLEAN : CappedTruncateAfter(end, inclusive)
    \/ Truncate
    \/ \E cappedSize \in OplogResizes : UpdateCappedSize(cappedSize)

\* Every thread gets to run: a thread that holds a mutex, or that can take
\* one, takes its next step.
SpecMutex ==
    /\ InitOplog
    /\ [][NextMutex]_vars
    /\ \A w \in Waiters : WF_vars(AwaitCheck(w)) /\ WF_vars(AwaitBlock(w))
    /\ WF_vars(HookSwapBytes("t1")) /\ WF_vars(HookUnlock("t1"))
    /\ WF_vars(ReclaimAdvance)

\* C35: no state of the stone bookkeeping is a deadlock. A thread that holds
\* _mutex releases it, a thread that holds _oplogReclaimMutex releases it
\* (by returning or by blocking on the condition variable), so nobody waits
\* for either for ever; and the commit hook of an insert never waits for
\* _mutex: with _mutex taken it still has a step (try_to_lock fails).
C35_DeadlockFree ==
    /\ (_mutex # "free") ~> (_mutex = "free")
    /\ \A w \in Waiters :
           (wpc[w] \in {"locked", "checked"}) ~> (wpc[w] \notin {"locked", "checked"})
    /\ [](pc["t1"] = "hookBytes" => ENABLED HookAddBytes("t1"))
    /\ [](pc["t1"] = "hookCreate" =>
              ENABLED (HookCreateBusy("t1") \/ HookCreateBegin("t1")))

\* C35 witness: the reclaimer holds _mutex in popOldestStone while a thread in
\* awaitHasExcessStonesOrDead holds _oplogReclaimMutex and needs _mutex for
\* its check, and the commit hook of an insert is about to try _mutex.
C35_Witness ==
    /\ _mutex = "reclaimer"
    /\ wpc["w1"] = "locked"
    /\ pc["t1"] = "hookCreate"

\* ------------------------------------------------- truncate() of the oplog

\* The unit of work of t has called truncate() on the oplog.
Truncating(t) ==
    \E i \in 1..Len(txn[t].changes) : txn[t].changes[i].kind = "stones"

\* wuow.commit() after truncate(): the engine commits the removal, then
\* TruncateChange::commit stores 0 in _currentRecords and _currentBytes and
\* clears _stones under _mutex.
OplogCommitTruncateKeepsStones(t) ==
    /\ pc[t] = "done"
    /\ Truncating(t)
    /\ table' = Applied(t)
    /\ pc' = [pc EXCEPT ![t] = "idle"]
    /\ txn' = [txn EXCEPT ![t] = EmptyTxn]
    /\ UNCHANGED <<_numRecords, _dataSize, burned, _cappedMaxSize, oplogFixed>>
    /\ UNCHANGED <<oplogVars, cursorVars, awaitVars, engineVars, callerVars>>
OplogCommitTruncate(t) ==
    /\ pc[t] = "done"
    /\ Truncating(t)
    /\ _mutex = "free"
    /\ table' = Applied(t)
    /\ _currentRecords' = 0
    /\ _currentBytes' = 0
    /\ _stones' = <<>>
    /\ deferred' = FALSE
    /\ pc' = [pc EXCEPT ![t] = "idle"]
    /\ txn' = [txn EXCEPT ![t] = EmptyTxn]
    /\ UNCHANGED <<_numRecords, _dataSize, burned, _cappedMaxSize, oplogFixed>>
    /\ UNCHANGED <<_minBytesPerStone, firstRecord, _mutex, swapped, rpc, rstone, opTime>>
    /\ UNCHANGED <<cursorVars, awaitVars, engineVars, callerVars>>

\* The oplog with inserting clients and truncate() in a unit of work of its
\* own. truncate() runs under the exclusive collection lock: it starts when
\* nothing else is going on, and nothing else starts before its unit of work
\* has ended. A unit of work that wrote nothing has no InsertChange to run.
NextOplogTruncate ==
    \/ \E t \in Threads : (\A u \in Threads : ~Truncating(u)) /\ BeginUnitOfWork(t)
    \/ \E t \in Threads, lens \in OplogBatches : OplogInsertRecords(t, lens)
    \/ \E t \in Threads :
           /\ \A u \in Threads \ {t} : pc[u] = "idle"
           /\ rpc = "idle" /\ _mutex = "free"
           /\ TruncateStore(t)
    \/ \E t \in Threads : AbortUnitOfWork(t)
    \/ \E t \in Threads : txn[t].ids # <<>> /\ OplogCommit(t)
    \/ \E t \in Threads : OplogCommitTruncate(t)
    \/ \E t \in Threads : HookAddBytes(t)
    \/ \E t \in Threads : HookCreateBusy(t)
    \/ \E t \in Threads : HookCreateBegin(t)
    \/ \E t \in Threads : HookSwapBytes(t)
    \/ \E t \in Threads : HookUnlock(t)

SpecOplogTruncate == InitOplog /\ [][NextOplogTruncate]_vars

\* C24: truncate() of a non-empty oplog registers the counters as it read
\* them and touches neither the stones nor the open segment's totals; when its
\* unit of work commits, the table and the stone list are empty, the open
\* segment's totals are zero and numRecords() and dataSize() are zero; when it
\* aborts, the table, the stones and the open segment's totals are unchanged
\* and the counters are back at what truncate() read.
C24_TruncateClearsStones ==
    [][\A t \in Threads :
          /\ (~Truncating(t) /\ Truncating(t)') =>
                 /\ UNCHANGED <<table, oplogVars>>
                 /\ txn'[t].changes = <<[kind |-> "num", diff |-> -_numRecords],
                                        [kind |-> "size", diff |-> -_dataSize],
                                        [kind |-> "stones", diff |-> 0]>>
                 /\ _numRecords' = 0 /\ _dataSize' = 0
          /\ (Truncating(t) /\ ~Truncating(t)' /\ table' # table) =>
                 /\ table' = <<>>
                 /\ _stones' = <<>>
                 /\ _currentRecords' = 0 /\ _currentBytes' = 0
                 /\ _numRecords' = 0 /\ _dataSize' = 0
          /\ (Truncating(t) /\ ~Truncating(t)' /\ table' = table) =>
                 /\ UNCHANGED <<_stones, _currentRecords, _currentBytes>>
                 /\ _numRecords' = -txn[t].changes[1].diff
                 /\ _dataSize' = -txn[t].changes[2].diff]_vars

\* C24 witness: a truncate() of an oplog that has stones and an open segment
\* with records is about to commit or abort.
C24_Witness ==
    /\ Truncating("t1")
    /\ pc["t1"] = "done"
    /\ Len(_stones) > NumStonesToKeep(_cappedMaxSize)
    /\ _currentRecords > 0

\* ------------------------------------------- cappedTruncateAfter and the stones

\* The records and bytes a stone list stands for.
RECURSIVE StoneRecords(_)
StoneRecords(stones) ==
    IF stones = <<>> THEN 0 ELSE Head(stones).records + StoneRecords(Tail(stones))
RECURSIVE StoneBytes(_)
StoneBytes(stones) ==
    IF stones = <<>> THEN 0 ELSE Head(stones).bytes + StoneBytes(Tail(stones))

\* The records a step removed from the table.
Removed == DOMAIN table \ DOMAIN table'

\* C25 as stated: after cappedTruncateAfter on the oplog no remaining stone
\* has lastRecord >= the first removed id, the records and bytes of the stones
\* plus those of the open segment have decreased by exactly the records and
\* bytes removed, and both totals of the open segment are non-negative.
C25_Original ==
    [][\A end \in DOMAIN table, inclusive \in BOOLEAN :
          CappedTruncateAfter(end, inclusive) =>
              /\ \A i \in 1..Len(_stones') : _stones'[i].lastRecord < SetMin(Removed)
              /\ StoneRecords(_stones') + _currentRecords' =
                     (StoneRecords(_stones) + _currentRecords) - Cardinality(Removed)
              /\ StoneBytes(_stones') + _currentBytes' =
                     (StoneBytes(_stones) + _currentBytes) - ScanBytes(table, Removed)
              /\ _currentRecords' >= 0
              /\ _currentBytes' >= 0]_vars

\* No unit of work is open, no commit hook is running and the reclaimer is
\* outside reclaimOplog.
OplogQuiescent == (\A t \in Threads : pc[t] = "idle") /\ rpc = "idle" /\ _mutex = "free"

C37_Original ==
    [][(startup \in {"empty", "scan"} /\ Len(_stones') = Len(_stones) + 1) =>
          LET stone == _stones'[Len(_stones')]
              prev == IF _stones = <<>> THEN 0 ELSE _stones[Len(_stones)].lastRecord
              segment == {id \in DOMAIN table : id > prev /\ id <= stone.lastRecord}
          IN  /\ stone.records = Cardinality(segment)
              /\ stone.bytes = ScanBytes(table, segment)]_vars

\* ------------------------------------------- the engine's oldest timestamp

\* The id of the newest record of a table, RecordId() if it has none.
NewestId(tbl) == IF DOMAIN tbl = {} THEN NullId ELSE SetMax(DOMAIN tbl)

\* C26 as stated: on the oplog every successful truncation, by reclaimOplog as
\* well as by cappedTruncateAfter, sets the engine's oldest timestamp to the id
\* of the newest retained record, and only a committed truncation sets it.
C26_Original ==
    [][/\ \A end \in DOMAIN table, inclusive \in BOOLEAN :
              CappedTruncateAfter(end, inclusive) => oldestTimestamp' = NewestId(table')
       /\ ReclaimTruncate => oldestTimestamp' = NewestId(table')
       /\ oldestTimestamp' # oldestTimestamp => Removed # {}]_vars

\* C26 amended: on the oplog every successful cappedTruncateAfter sets the
\* engine's oldest timestamp to the id of the newest retained record (the null
\* id when none is retained), and only a step that commits such a truncation
\* sets it; reclaimOplog removes the oldest records and leaves the oldest
\* timestamp alone.
C26_TruncateAfterRewinds ==
    [][/\ \A end \in DOMAIN table, inclusive \in BOOLEAN :
              CappedTruncateAfter(end, inclusive) => oldestTimestamp' = NewestId(table')
       /\ (ReclaimTruncate \/ ReclaimPop \/ ReclaimAdvance) => UNCHANGED oldestTimestamp
       /\ oldestTimestamp' # oldestTimestamp =>
              /\ Removed # {}
              /\ \A id \in DOMAIN table' : id < SetMin(Removed)]_vars

\* C26 witness: the reclaimer has removed the first record of a scanned oplog
\* and cappedTruncateAfter has cut off the record inserted since.
C26_Witness ==
    /\ startup = "scan"
    /\ oldestTimestamp = 10
    /\ DOMAIN table = 2..10
    /\ firstRecord = 1

\* ------------------------------------------------------ resizing the oplog

\* The sizes the oplog is resized to: too small for ten stones, just enough,
\* sizes that keep ten stones, eleven, and more than the hundred allowed.
OplogSizes == {5, 10, 5000, 10000, 11 * BSONObjMaxInternalSize, 101 * BSONObjMaxInternalSize}

\* The oplog with one inserting client, the threads that wait for excess
\* stones and updateCappedSize; nothing runs once an invariant has failed.
NextResize ==
    \/ BeginUnitOfWork("t1")
    \/ OplogInsertRecords("t1", <<1000>>)
    \/ OplogCommit("t1")
    \/ HookAddBytes("t1")
    \/ HookCreateBegin("t1")
    \/ HookSwapBytes("t1")
    \/ HookUnlock("t1")
    \/ \E w \in Waiters : pc["t1"] # "dead" /\ AwaitYield(w)
    \/ \E w \in Waiters : pc["t1"] # "dead" /\ AwaitCheck(w)
    \/ \E w \in Waiters : pc["t1"] # "dead" /\ AwaitBlock(w)
    \/ \E w \in Waiters : pc["t1"] # "dead" /\ AwaitReturn(w)
    \/ \E cappedSize \in OplogSizes : UpdateCappedSize(cappedSize)

SpecResize == InitOplog /\ [][NextResize]_vars

\* C27: for every size > 0 the stones to keep are size / BSONObjMaxInternalSize
\* clamped into [10, 100] and _minBytesPerStone is size divided by that number
\* and is > 0, at start-up and after updateCappedSize, whose invariant
\* therefore holds; updateCappedSize leaves the stones and the open segment's
\* totals unchanged and wakes a waiting thread exactly when there are excess
\* stones.
C27_StoneSizing ==
    /\ [](/\ NumStonesToKeep(_cappedMaxSize) \in kMinStonesToKeep..kMaxStonesToKeep
          /\ _minBytesPerStone * NumStonesToKeep(_cappedMaxSize) <= _cappedMaxSize
          /\ (_minBytesPerStone + 1) * NumStonesToKeep(_cappedMaxSize) > _cappedMaxSize
          /\ _minBytesPerStone > 0
          /\ \A t \in Threads : pc[t] # "dead")
    /\ [][_cappedMaxSize' # _cappedMaxSize =>
              /\ UNCHANGED <<_stones, _currentRecords, _currentBytes>>
              /\ (wpc' # wpc) <=> (/\ hasExcessStones_inlock'
                                   /\ \E w \in Waiters : wpc[w] = "waiting")]_vars

\* ------------------------------------------- stone bookkeeping and commits

\* The stones and the totals of the open segment.
bookkeeping == <<_stones, _currentRecords, _currentBytes>>

\* C28: on the oplog the bookkeeping of the stones follows commits only: the
\* insert of a batch and the abort of its unit of work leave the stones and the
\* open segment's totals unchanged; the commit adds the batch's record count,
\* and the hook that follows adds its byte total, to the open segment, each
\* once; a stone that is then closed ends at the batch's highest id; and no
\* thread ever enters the capped reclaimer.
C28_BookkeepingAtCommit ==
    /\ [][\A t \in Threads :
             /\ (pc[t] = "inTxn" /\ pc'[t] = "done") => UNCHANGED bookkeeping
             /\ (pc[t] = "done" /\ pc'[t] = "idle") => UNCHANGED <<bookkeeping, table>>
             /\ (pc[t] = "done" /\ pc'[t] = "hookBytes") =>
                    /\ _currentRecords' = _currentRecords + Len(txn[t].lens)
                    /\ UNCHANGED <<_stones, _currentBytes>>
             /\ (pc[t] = "hookBytes" /\ pc'[t] # "hookBytes") =>
                    /\ _currentBytes' = _currentBytes + SumSeq(txn[t].lens)
                    /\ UNCHANGED <<_stones, _currentRecords>>
             /\ (pc'[t] # pc[t] /\ _currentRecords' > _currentRecords) =>
                    (pc[t] = "done" /\ pc'[t] = "hookBytes")
             /\ (pc'[t] # pc[t] /\ _currentBytes' > _currentBytes) =>
                    (pc[t] = "hookBytes")
             /\ (pc'[t] # pc[t] /\ _stones' # _stones) =>
                    /\ pc[t] = "hookSwap"
                    /\ Len(_stones') = Len(_stones) + 1
                    /\ SubSeq(_stones', 1, Len(_stones)) = _stones
                    /\ _stones'[Len(_stones')].lastRecord = txn[t].ids[Len(txn[t].ids)]]_vars
    /\ [](/\ \A t \in Threads : pc[t] \in {"idle", "inTxn", "done", "hookBytes",
                                           "hookCreate", "hookSwap", "hookUnlock"}
          /\ _cappedDeleterMutex = "free"
          /\ _cappedFirstRecord = NullId)

\* C28 witness: the unit of work that inserted record 1 aborted and the one
\* that inserted record 2, of 500 bytes, committed.
C28_Witness ==
    /\ startup = "empty"
    /\ burned = {1}
    /\ DOMAIN table = {2}
    /\ \A t \in Threads : pc[t] = "idle"
    /\ _stones = <<>>
    /\ _currentRecords = 1 /\ _currentBytes = 500

\* ------------------------------------------------ the caller of the inserts

\* What the caller's actions leave alone.
callerFixed == <<_nextIdNum, idLog, cappedVars, oplogVars, cursorVars, awaitVars, engineVars>>

\* insertBatchAndHandleErrors(batch): a batch of several documents for a
\* collection that is not capped is first tried all at once.
ClientInsert(t, batch, ordered) ==
    /\ pc[t] = "idle"
    /\ clientOp[t].docs = <<>>
    /\ clientOp' = [clientOp EXCEPT ![t] =
                        [docs |-> batch, next |-> 1,
                         whole |-> (kind # "capped" /\ Len(batch) > 1),
                         ordered |-> ordered]]
    /\ UNCHANGED <<table, _numRecords, _dataSize, pc, txn, burned, callerFixed>>

\* A caller whose loop would not advance after wuow.commit(): the committed
\* attempt is run again.
ClientCommitAgain(t) ==
    /\ pc[t] = "done"
    /\ table' = Applied(t)
    /\ pc' = [pc EXCEPT ![t] = "idle"]
    /\ txn' = [txn EXCEPT ![t] = EmptyTxn]
    /\ UNCHANGED <<clientOp, _numRecords, _dataSize, burned, callerFixed>>

\* insertDocuments returns after wuow.commit(): the all-at-once attempt ends
\* the operation, the loop goes on to the next document or ends.
ClientCommit(t) ==
    /\ pc[t] = "done"
    /\ table' = Applied(t)
    /\ pc' = [pc EXCEPT ![t] = "idle"]
    /\ txn' = [txn EXCEPT ![t] = EmptyTxn]
    /\ clientOp' = [clientOp EXCEPT ![t] =
                        IF clientOp[t].whole \/ clientOp[t].next = Len(clientOp[t].docs)
                        THEN NoOp
                        ELSE [clientOp[t] EXCEPT !.next = @ + 1]]
    /\ UNCHANGED <<_numRecords, _dataSize, burned, callerFixed>>

\* insertDocuments throws, its unit of work is rolled back. After the
\* all-at-once attempt, catch (const DBException&) leads to the loop, which
\* starts at batch.begin(). In the loop writeConflictRetry runs the same
\* document again after a write conflict; any other error goes to handleError,
\* which ends an ordered operation and lets an unordered one go on.
ClientCatch(t, conflict) ==
    /\ pc[t] = "failed"
    /\ LET r == RollbackCounters(txn[t].changes, _numRecords, _dataSize)
       IN  /\ _numRecords' = r.n
           /\ _dataSize' = r.d
    /\ pc' = [pc EXCEPT ![t] = "idle"]
    /\ txn' = [txn EXCEPT ![t] = EmptyTxn]
    /\ burned' = burned \union {txn[t].ids[i] : i \in 1..Len(txn[t].ids)}
    /\ clientOp' = [clientOp EXCEPT ![t] =
                        IF clientOp[t].whole THEN [clientOp[t] EXCEPT !.whole = FALSE]
                        ELSE IF conflict THEN clientOp[t]
                        ELSE IF clientOp[t].ordered \/ clientOp[t].next = Len(clientOp[t].docs)
                        THEN NoOp
                        ELSE [clientOp[t] EXCEPT !.next = @ + 1]]
    /\ UNCHANGED <<table, callerFixed>>

\* The ordinary store under clients that insert through
\* insertBatchAndHandleErrors: insertDocuments gets the whole batch in the
\* all-at-once attempt and one document (it, it + 1) in the loop.
NextClient ==
    \/ \E t \in Threads, batch \in Batches, ordered \in BOOLEAN : ClientInsert(t, batch, ordered)
    \/ \E t \in Threads : clientOp[t].docs # <<>> /\ BeginUnitOfWork(t)
    \/ \E t \in Threads :
           InsertRecords(t, IF clientOp[t].whole THEN clientOp[t].docs
                            ELSE <<clientOp[t].docs[clientOp[t].next]>>)
    \/ \E t \in Threads : NextId(t)
    \/ \E t \in Threads : WriteRecords(t)
    \/ \E t \in Threads : WriteRecordsFail(t)
    \/ \E t \in Threads : ClientCommit(t)
    \/ \E t \in Threads, conflict \in BOOLEAN : ClientCatch(t, conflict)

SpecClient == Init /\ [][NextClient]_vars

\* C29: a failed c->insert ends _insertRecords at once, before the counters
\* are touched; the unit of work can then only be rolled back, which leaves the
\* table without any record of the batch; and after a write conflict the
\* caller inserts again every document of the failed attempt: each document of
\* the batch after the all-at-once attempt, the same document in the loop.
C29_ConflictRetriesBatch ==
    [][\A t \in Threads :
          /\ (pc[t] = "write" /\ (txn'[t] # txn[t] \/ pc'[t] # pc[t])) =>
                 /\ pc'[t] \in {"done", "failed"}
                 /\ pc'[t] = "failed" => UNCHANGED <<table, _numRecords, _dataSize>>
          /\ pc[t] = "failed" => pc'[t] \in {"failed", "idle"}
          /\ ClientCatch(t, TRUE) =>
                 /\ UNCHANGED <<table, _numRecords, _dataSize>>
                 /\ \A i \in 1..Len(txn[t].ids) : txn[t].ids[i] \notin DOMAIN table'
                 /\ clientOp'[t].docs = clientOp[t].docs
                 /\ clientOp'[t].next = clientOp[t].next
                 /\ clientOp[t].whole => clientOp'[t].next = 1
          /\ (pc[t] = "inTxn" /\ pc'[t] = "assign") =>
                 txn'[t].lens = IF clientOp[t].whole THEN clientOp[t].docs
                                ELSE <<clientOp[t].docs[clientOp[t].next]>>]_vars

\* C29 witness: the insert of one document failed after it had taken id 1, was
\* rolled back, and the second attempt stored the document under id 2.
C29_Witness ==
    /\ \A t \in Threads : pc[t] = "idle" /\ clientOp[t] = NoOp
    /\ burned = {1}
    /\ DOMAIN table = {2}
    /\ _numRecords = 1

\* ------------------------------------------- one client, single-record batches

\* postConstructorInit() on the table found: the reverse cursor's first record
\* gives _nextIdNum = 1 + max and the size storer gives the counters; on an
\* empty table _nextIdNum is 1 and the counters are 0.
InitFound ==
    \E found \in {{}, {1, 2}, {2, 4}} :
        /\ table = [id \in found |-> 5]
        /\ _numRecords = Cardinality(found)
        /\ _dataSize = 5 * Cardinality(found)
        /\ _nextIdNum = IF found = {} THEN 1 ELSE 1 + SetMax(found)
        /\ pc = [t \in Threads |-> "idle"]
        /\ txn = [t \in Threads |-> EmptyTxn]
        /\ idLog = <<>>
        /\ burned = {}
        /\ kind = "plain"
        /\ _cappedMaxSize = -1
        /\ _cappedMaxDocs = -1
        /\ _cappedFirstRecord = NullId
        /\ _cappedDeleterMutex = "free"
        /\ overlapped = FALSE
        /\ reclaimFailed = FALSE
        /\ committedIds = {}
        /\ NoOplogStones
        /\ NoCursor
        /\ NoKill
        /\ clientOp = [t \in Threads |-> NoOp]

\* insertDocuments of one document by the only client, from WriteUnitOfWork
\* to wuow.commit(): _insertRecords takes record.id = _nextId(), writes the
\* record and changes the counters, and nothing fails.
InsertOne(len) ==
    /\ _nextIdNum <= MaxSeqId
    /\ LET id == _nextIdNum
       IN  /\ _nextIdNum' = NextIdAfter(_nextIdNum)
           /\ idLog' = Append(idLog, id)
           /\ table' = [i \in DOMAIN table \union {id} |-> IF i = id THEN len ELSE table[i]]
    /\ _numRecords' = FetchAndAddClamp(_numRecords, 1)
    /\ _dataSize' = FetchAndAddClamp(_dataSize, len)
    /\ UNCHANGED <<pc, txn, burned, cappedVars, oplogVars, cursorVars, awaitVars,
                   engineVars, callerVars>>

NextSeq == \E len \in {1, 3, 5} : InsertOne(len)

SpecSeq == InitFound /\ [][NextSeq]_vars

\* The ids of the records the store was opened with.
Found == DOMAIN table \ Range(idLog)

\* C40: insertBatchAndHandleErrors commits each document of a batch at most
\* once. The table changes only when an attempt commits, and a commit stores
\* exactly the documents of that attempt, after which the operation has ended
\* (all-at-once attempt) or the loop has moved to the next document. A failed
\* attempt is rolled back with none of its records stored; after a failed
\* all-at-once attempt the loop starts at the first document with whole
\* cleared; after a write conflict in the loop the same document is tried
\* again from an idle, empty unit of work; and after any other error an ordered
\* operation ends, so none of its later documents is attempted.
C40_CommitAtMostOnce ==
    [][\A t \in Threads :
          LET op == clientOp[t]
              attempt == IF op.whole THEN Len(op.docs) ELSE 1
          IN  /\ (table' # table) =>
                     \E u \in Threads : pc[u] = "done" /\ pc'[u] = "idle"
              /\ (pc[t] = "done" /\ pc'[t] = "idle") =>
                     /\ Cardinality(DOMAIN table') = Cardinality(DOMAIN table) + attempt
                     /\ \/ clientOp'[t] = NoOp
                        \/ /\ ~op.whole
                           /\ op.next < Len(op.docs)
                           /\ clientOp'[t] = [op EXCEPT !.next = op.next + 1]
              /\ (pc[t] = "failed" /\ pc'[t] = "idle") =>
                     /\ table' = table
                     /\ \A i \in 1..Len(txn[t].ids) : txn[t].ids[i] \notin DOMAIN table'
                     /\ txn'[t] = EmptyTxn
                     /\ op.whole => /\ op.next = 1
                                    /\ clientOp'[t] = [op EXCEPT !.whole = FALSE]
              /\ (ClientCatch(t, TRUE) /\ ~op.whole) => clientOp'[t] = op
              /\ (ClientCatch(t, FALSE) /\ ~op.whole /\ op.ordered) => clientOp'[t] = NoOp
              /\ (pc[t] # "idle" /\ pc'[t] # "idle") => clientOp'[t] = op
              /\ (pc[t] = "idle" /\ pc'[t] # "idle") =>
                     /\ op.docs # <<>>
                     /\ clientOp'[t] = op
                     /\ txn[t] = EmptyTxn]_vars

\* C40 witness: the all-at-once attempt of the batch <<5, 1>> failed after it
\* had taken ids, the loop then committed the first document alone and is
\* about to insert the second one.
C40_Witness ==
    /\ pc["t1"] = "idle" /\ pc["t2"] = "idle" /\ clientOp["t2"] = NoOp
    /\ clientOp["t1"].docs = <<5, 1>>
    /\ ~clientOp["t1"].whole
    /\ clientOp["t1"].next = 2
    /\ burned # {}
    /\ Cardinality(DOMAIN table) = 1
    /\ _dataSize = 5

\* C30: n single-record batches, each committed, get consecutive ids in
\* order, from 1 on a store opened empty and from 1 + the largest id found on
\* one opened with records; on the store opened empty the records are 1..n and
\* numRecords() is n, and so after five inserts the ids are 1..5 and
\* numRecords() is 5.
C30_SequentialIds ==
    LET first == IF Found = {} THEN 1 ELSE 1 + SetMax(Found)
        n == Len(idLog)
    IN  /\ \A i \in 1..n : idLog[i] = first + (i - 1)
        /\ DOMAIN table = Found \union (first..(first + n - 1))
        /\ Found = {} => (DOMAIN table = 1..n /\ _numRecords = n)
        /\ (Found = {} /\ n = 5) => (DOMAIN table = 1..5 /\ _numRecords = 5)

\* C30 witness: five records were inserted into the store opened empty.
C30_Witness ==
    /\ Found = {}
    /\ idLog = <<1, 2, 3, 4, 5>>
    /\ _numRecords = 5

====
